---- MODULE Spec2Model ----
(***************************************************************************)
(* Model of the factor-relations engine of src/analysis/relations.py and   *)
(* of the scripts that run it and send its briefing.                       *)
(*                                                                         *)
(* The specifications of the module:                                       *)
(*   SpecRet    calcular_retornos applied to a wide matrix of returns      *)
(*   SpecStd    estandarizar_variables applied to the return matrices      *)
(*   Spec       calcular_regresiones, calcular_contribuciones and          *)
(*              crear_tabla_resultado                                      *)
(*   SpecLocal  elegir_riesgo_local                                        *)
(*   SpecRun    run_relations, from the long price table to the file       *)
(*   SpecDaily  daily_update.main, run twice on the same storage           *)
(*   SpecSend   send_newsletter.main                                       *)
(*   SpecFact   crear_factores applied to standardized matrices            *)
(*   SpecTexto  generar_texto_news applied to the latest date's inputs     *)
(*   SpecCorrida  one run of daily_update.main, its steps taken in turn    *)
(*                                                                         *)
(* A missing value (pandas NaN) is the empty tuple.  A number is a tuple:  *)
(* <<k>> an integer, <<n, d>> the rational n/d in lowest terms with d > 0, *)
(* <<hi, lo>> in the 5-day return matrix the integer hi*Limb + lo.         *)
(***************************************************************************)
EXTENDS Integers, Sequences, FiniteSets, TLC

VARIABLES
    variables,       \* the wide matrix construir_variables_base returns: ticker -> column
    retornos,        \* calcular_retornos' result: horizon -> ticker -> column
    pcRet,           \* position of calcular_retornos
    estandarizadas,  \* estandarizar_variables' result, shaped like retornos
    pcStd,           \* position of estandarizar_variables
    factores,        \* crear_factores' result: horizon -> factor frame
    oraculo,         \* which of the two coefficient rows the first fit returns
    pendientes,      \* the horizons the loop of line 214 has still to run
    betas,           \* the coefficient table of the horizon in progress (line 231)
    r2_scores,       \* the R2 series of the horizon in progress (line 232)
    iReg,            \* the loop index i of line 235
    eventos,         \* horizon -> date -> what the loop body did ("fit", "raise_fit",
                     \* "raise_score", "skip"): a record of the run, read by no action
    fallos,          \* how many fits or scorings have raised so far
    modelos,         \* calcular_regresiones' result: horizon -> [betas, r2]
    contribuciones,  \* calcular_contribuciones' result: horizon -> date -> row
    tablas,          \* crear_tabla_resultado's result: horizon -> sequence of rows
    pc,              \* position of the regression, contribution and table steps
    precios,         \* the long price table run_relations reads: a set of rows
                     \* [fila, date, ticker, pct_change], fila the row's own index
    corr_std,        \* candidate -> corr_rolling.std() of elegir_riesgo_local
    local_ticker,    \* elegir_riesgo_local's result
    llamadas,        \* how many times elegir_riesgo_local has been called
    columnas,        \* horizon -> the columns of the frame the steps have built
    huboFallo,       \* whether a fit of the run raised inside calcular_regresiones
    excepcion,       \* the exception run_relations raised to its caller, or "none"
    archivo,         \* the output file: "absent" or "written"
    pcRun,           \* position of run_relations
    disco,           \* the entries of the four storage directories of daily_update:
                     \* records [dir, nombre, corrida], corrida the run that wrote it
    escritos,        \* the entries the run in progress and the run before it have
                     \* written: a record of what happened, read by no step
    denegados,       \* the entries whose removal raised PermissionError in the last
                     \* prepare_storage
    corrida,         \* which run of daily_update.main is in progress
    skip_llm,        \* args.skip_llm of the run
    relations_df,    \* the relations table main holds: "vacio" or "filas"
    news_items,      \* the news list main holds: "vacia" or "titulares"
    servicio,        \* what the language-model service does when called, as of the
                     \* last run that came to call build_briefing_with_llm
    invocacion,      \* the parameters build_briefing_with_llm's body ran with, as
                     \* <<parameter, argument>> pairs; <<>> when it never ran
    briefing,        \* the content of the run's briefing file
    escrituras,      \* how many times the run has written its briefing file
    pcMain,          \* position of daily_update.main
    opciones,        \* send_newsletter's arguments and environment
    payload,         \* payload_preview of send_newsletter, <<>> before it is built
    cliente,         \* whether a ButtondownClient has been created
    peticiones,      \* the API requests sent so far
    salida,          \* how send_newsletter.main ended
    pcSend,          \* position of send_newsletter.main
    texto_news       \* the text generar_texto_news returned, <<>> before it ran

varsRet == <<variables, retornos, pcRet>>

varsStd == <<estandarizadas, pcStd>>

varsReg == <<factores, oraculo, pendientes, betas, r2_scores, iReg, eventos, fallos,
             modelos, contribuciones, tablas, pc>>

varsLocal == <<corr_std, local_ticker, llamadas>>

varsRun == <<precios, columnas, huboFallo, excepcion, archivo, pcRun>>

varsMain == <<disco, escritos, denegados, corrida, skip_llm, relations_df, news_items,
              servicio, invocacion, briefing, escrituras, pcMain>>

varsSend == <<opciones, payload, cliente, peticiones, salida, pcSend>>

varsTexto == <<texto_news>>

vars == <<varsRet, varsStd, varsReg, varsLocal, varsRun, varsMain, varsSend, varsTexto>>

\* the variables of a function that a specification does not run
RetIdle == variables = <<>> /\ retornos = <<>> /\ pcRet = "idle"

StdIdle == estandarizadas = <<>> /\ pcStd = "idle"

RegIdle ==
    /\ factores = <<>> /\ oraculo = 0 /\ pendientes = <<>> /\ betas = <<>>
    /\ r2_scores = <<>> /\ iReg = 0 /\ eventos = <<>> /\ fallos = 0
    /\ modelos = <<>> /\ contribuciones = <<>> /\ tablas = <<>> /\ pc = "idle"

LocalIdle == corr_std = <<>> /\ local_ticker = "" /\ llamadas = 0

RunIdle ==
    /\ precios = {} /\ columnas = <<>> /\ huboFallo = FALSE /\ excepcion = "none"
    /\ archivo = "absent" /\ pcRun = "idle"

MainIdle ==
    /\ disco = {} /\ escritos = {} /\ denegados = {} /\ corrida = 0
    /\ skip_llm = FALSE /\ relations_df = "vacio" /\ news_items = "vacia"
    /\ servicio = "ok" /\ invocacion = <<>> /\ briefing = "absent"
    /\ escrituras = 0 /\ pcMain = "idle"

TextoIdle == texto_news = <<>>

SendIdle ==
    /\ opciones = <<>> /\ payload = <<>> /\ cliente = FALSE /\ peticiones = <<>>
    /\ salida = "none" /\ pcSend = "idle"

NaN == <<>>

IsNaN(c) == c = NaN

(***************************************************************************)
(* pandas Series.rolling(window).apply(func, raw=False) with the default   *)
(* min_periods = window: the value at row t is func(the rows               *)
(* max(0, t-window+1)..t) when those rows hold at least min_periods        *)
(* non-NaN values, and NaN otherwise (func is not called).                 *)
(***************************************************************************)
VentanaIdx(t, window) == (IF t - window + 1 > 0 THEN t - window + 1 ELSE 0)..t

NoNulos(col, idx) == {j \in idx : ~IsNaN(col[j])}

\* func is called for row t only when the window holds min_periods = window
\* non-NaN observations
HayObservaciones(col, t, window) ==
    Cardinality(NoNulos(col, VentanaIdx(t, window))) >= window

(***************************************************************************)
(* construir_variables_base: DataFrame.ffill(limit=5).  A NaN cell takes   *)
(* the last value above it when at most 5 rows separate them.              *)
(***************************************************************************)
LimiteFfill == 5

\* a forward fill without limit
ffill_sin_limite(col) ==
    [t \in DOMAIN col |->
        IF ~IsNaN(col[t]) THEN col[t]
        ELSE LET previos == {x \in DOMAIN col : x < t /\ ~IsNaN(col[x])}
             IN  IF previos = {} THEN NaN
                 ELSE col[CHOOSE x \in previos : \A y \in previos : y <= x]]

ffill(col) ==
    [t \in DOMAIN col |->
        IF ~IsNaN(col[t]) THEN col[t]
        ELSE LET previos == {s \in DOMAIN col : s < t /\ ~IsNaN(col[s])}
             IN  IF previos = {} THEN NaN
                 ELSE LET s == CHOOSE x \in previos : \A y \in previos : y <= x
                      IN  IF t - s <= LimiteFfill THEN col[s] ELSE NaN]

(***************************************************************************)
(* calcular_retornos.  A raw return k stands for k/Den (Den = 100: one     *)
(* unit is 0.01).  A 5-day value <<hi, lo>> stands for                     *)
(* (hi*Limb + lo) / Den^5, with 0 <= lo < Limb.                            *)
(***************************************************************************)
Den == 10 * 10

Limb == Den * Den * 10

\* Den^5 = Limb^2: the number 1 in the unit of a product of five terms
UnoLimb == <<Limb, 0>>

CeroLimb == <<0, 0>>

\* (hi*Limb + lo) * m for a small m >= 0
MulLimb(p, m) ==
    LET q == p[2] * m IN <<p[1] * m + (q \div Limb), q % Limb>>

\* 1 + variables, elementwise (NaN stays NaN)
UnoMas(col) ==
    [t \in DOMAIN col |-> IF IsNaN(col[t]) THEN NaN ELSE <<col[t][1] + Den>>]

\* Series.prod() of the rows idx of col, skipping NaN, times Den^(5 - count)
RECURSIVE ProdFilas(_, _)
ProdFilas(col, idx) ==
    IF idx = {} THEN <<0, 1>>
    ELSE LET j == CHOOSE x \in idx : \A y \in idx : y <= x
             resto == ProdFilas(col, idx \ {j})
         IN  IF IsNaN(col[j]) THEN MulLimb(resto, Den)
             ELSE MulLimb(resto, col[j][1])

VentanaRet == 5

MinObsRet == 3

\* the lambda of line 101 on the window idx of x = 1 + variables:
\* (x + 1).prod() - 1 if len(x.dropna()) >= 3 else 0
lambda_5d(x, idx) ==
    IF Cardinality(NoNulos(x, idx)) >= MinObsRet
    THEN LET p == ProdFilas(UnoMas(x), idx) IN <<p[1] - UnoLimb[1], p[2]>>
    ELSE CeroLimb

\* (1 + variables).rolling(5).apply(lambda, raw=False) on one column
rolling_5d(col) ==
    LET x == UnoMas(col)
    IN  [t \in DOMAIN col |->
            IF HayObservaciones(x, t, VentanaRet)
            THEN lambda_5d(x, VentanaIdx(t, VentanaRet))
            ELSE NaN]

Periodos == {"1d", "5d"}

calcular_retornos(vs) ==
    [periodo \in Periodos |->
        IF periodo = "1d" THEN vs
        ELSE [tk \in DOMAIN vs |-> rolling_5d(vs[tk])]]

(***************************************************************************)
(* Inputs of calcular_retornos: the wide matrix construir_variables_base   *)
(* returns, two tickers.  Ticker "A" has `lead` leading NaN rows (the      *)
(* percentage change of a first observation is undefined), then values     *)
(* following a two-value pattern, with one gap of `gap` missing rows at    *)
(* row `pos` before the forward fill.  Ticker "B" is the constant 0.02.    *)
(***************************************************************************)
LargoRet == 12

MaxLead == 2

MaxGap == 8

Patrones == {<<1, 1>>, <<1, -3>>, <<2, 5>>}

ColumnaCruda(lead, pos, gap, pat) ==
    [t \in 0..(LargoRet - 1) |->
        IF t < lead \/ (t >= pos /\ t < pos + gap) THEN NaN
        ELSE <<pat[(t % 2) + 1]>>]

MatricesRet ==
    { [tk \in {"A", "B"} |->
          IF tk = "A" THEN ffill(ColumnaCruda(lead, pos, gap, pat))
          ELSE ffill(ColumnaCruda(1, 0, 0, <<2, 2>>))] :
      lead \in 0..MaxLead, pos \in 1..(LargoRet - 1), gap \in 0..MaxGap,
      pat \in Patrones }

InitRet ==
    /\ TextoIdle /\ variables \in MatricesRet /\ retornos = <<>> /\ pcRet = "start"
    /\ StdIdle /\ RegIdle /\ LocalIdle /\ MainIdle /\ SendIdle /\ RunIdle

CalcularRetornos ==
    /\ pcRet = "start"
    /\ retornos' = calcular_retornos(variables)
    /\ pcRet' = "done"
    /\ UNCHANGED <<varsTexto, varsMain, varsSend, variables, varsStd, varsReg, varsLocal, varsRun>>

NextRet == CalcularRetornos

SpecRet == InitRet /\ [][NextRet]_vars

\* the compounded return prod(1 + r) - 1 of the non-NaN rows idx of a raw column
Compuesto(col, idx) ==
    LET p == ProdFilas(UnoMas(col), idx) IN <<p[1] - UnoLimb[1], p[2]>>

\* C4: for every ticker and row whose trailing 5 raw returns are all non-null,
\* the 5-day value is prod(1 + r) - 1 over those 5 returns
C4_Compuesto5d ==
    pcRet = "done" =>
        \A tk \in DOMAIN variables : \A t \in DOMAIN variables[tk] :
            (t >= VentanaRet - 1
             /\ NoNulos(variables[tk], VentanaIdx(t, VentanaRet)) = VentanaIdx(t, VentanaRet))
            => retornos["5d"][tk][t] = Compuesto(variables[tk], VentanaIdx(t, VentanaRet))

\* C5: the 5-day value is exactly 0 when fewer than 3 of the trailing 5 raw
\* returns are non-null and the compounded product of the non-null ones otherwise
C5_Umbral3de5 ==
    pcRet = "done" =>
        \A tk \in DOMAIN variables : \A t \in DOMAIN variables[tk] :
            LET idx == VentanaIdx(t, VentanaRet)
                n == Cardinality(NoNulos(variables[tk], idx))
            IN  /\ n < MinObsRet => retornos["5d"][tk][t] = CeroLimb
                /\ n >= MinObsRet => retornos["5d"][tk][t] = Compuesto(variables[tk], idx)

(***************************************************************************)
(* estandarizar_variables.  Returns are integers in an arbitrary unit (a   *)
(* z-score does not depend on it); a standardized cell <<z>> holds the     *)
(* z-score in tenths, truncated toward zero.                               *)
(***************************************************************************)
Ventana == 90

MinObs == 10

RECURSIVE SumaFilas(_, _, _)
SumaFilas(col, a, b) ==
    IF a > b THEN 0
    ELSE IF a = b THEN (IF IsNaN(col[a]) THEN 0 ELSE col[a][1])
    ELSE LET m == (a + b) \div 2
         IN  SumaFilas(col, a, m) + SumaFilas(col, m + 1, b)

RECURSIVE SumaCuadrados(_, _, _)
SumaCuadrados(col, a, b) ==
    IF a > b THEN 0
    ELSE IF a = b THEN (IF IsNaN(col[a]) THEN 0 ELSE col[a][1] * col[a][1])
    ELSE LET m == (a + b) \div 2
         IN  SumaCuadrados(col, a, m) + SumaCuadrados(col, m + 1, b)

\* the number of non-NaN cells among the rows a..b
RECURSIVE CuentaNoNulos(_, _, _)
CuentaNoNulos(col, a, b) ==
    IF a > b THEN 0
    ELSE IF a = b THEN (IF IsNaN(col[a]) THEN 0 ELSE 1)
    ELSE LET m == (a + b) \div 2
         IN  CuentaNoNulos(col, a, m) + CuentaNoNulos(col, m + 1, b)

\* n*(n-1) times the sample variance (ddof = 1) of the non-NaN rows a..b
VarianzaNum(col, a, b) ==
    LET n == CuentaNoNulos(col, a, b)
        s == SumaFilas(col, a, b)
    IN  n * SumaCuadrados(col, a, b) - s * s

RaizEntera(x) == CHOOSE r \in 0..(2 * Ventana) : r * r <= x /\ x < (r + 1) * (r + 1)

\* (col[t] - mean) / std over the non-NaN rows a..b, in tenths
ZDecimos(col, a, b, t) ==
    LET n == CuentaNoNulos(col, a, b)
        num == n * col[t][1] - SumaFilas(col, a, b)
        z == RaizEntera((num * num * (n - 1) * 100) \div (n * VarianzaNum(col, a, b)))
    IN  IF num < 0 THEN <<-z>> ELSE <<z>>

\* estandarizar_ventana(x).iloc[-1] for the window x = rows a..b of col
estandarizar_ventana(col, a, b) ==
    IF b - a + 1 < MinObs THEN <<0>>
    ELSE IF CuentaNoNulos(col, a, b) < MinObs THEN <<0>>
    ELSE IF VarianzaNum(col, a, b) > 0
         THEN (IF IsNaN(col[b]) THEN NaN ELSE ZDecimos(col, a, b, b))
         ELSE <<0>>

PrimeraFila(t, window) == IF t - window + 1 > 0 THEN t - window + 1 ELSE 0

\* df[col].rolling(90).apply(lambda x: estandarizar_ventana(x).iloc[-1] ...)
rolling_estandarizar(col) ==
    [t \in DOMAIN col |->
        IF CuentaNoNulos(col, PrimeraFila(t, Ventana), t) >= Ventana
        THEN estandarizar_ventana(col, PrimeraFila(t, Ventana), t)
        ELSE NaN]

\* fillna(0) left out: the cells rolling() does not compute stay NaN
fillna0_omitido(col) == col

\* DataFrame.fillna(0)
fillna0(col) == [t \in DOMAIN col |-> IF IsNaN(col[t]) THEN <<0>> ELSE col[t]]

estandarizar_variables(rets) ==
    [periodo \in DOMAIN rets |->
        [tk \in DOMAIN rets[periodo] |->
            fillna0(rolling_estandarizar(rets[periodo][tk]))]]

(***************************************************************************)
(* Inputs of estandarizar_variables: one matrix per horizon, one column    *)
(* each, all of the same length.  A column has `lead` leading NaN rows     *)
(* (the 5-day matrix at least VentanaRet - 1 of them) and then a two-value *)
(* pattern.                                                                *)
(***************************************************************************)
MaxExtraStd == 2

LargosStd == {MinObs - 1, MinObs} \cup ((Ventana - 1)..(Ventana + MaxExtraStd))

LeadsStd(periodo) ==
    LET base == {0, 1, Ventana - MinObs, Ventana - MinObs + 1}
    IN  IF periodo = "1d" THEN base ELSE {l + VentanaRet - 1 : l \in base}

ColumnaStd(n, lead, pat) ==
    [t \in 0..(n - 1) |-> IF t < lead THEN NaN ELSE <<pat[(t % 2) + 1]>>]

RetornosStd ==
    { [periodo \in Periodos |->
          [tk \in {"COP=X"} |->
              IF periodo = "1d" THEN ColumnaStd(n, l1, p1) ELSE ColumnaStd(n, l5, p5)]] :
      n \in LargosStd, l1 \in LeadsStd("1d"), l5 \in LeadsStd("5d"),
      p1 \in Patrones, p5 \in Patrones }

InitStd ==
    /\ TextoIdle /\ variables = <<>> /\ pcRet = "idle"
    /\ retornos \in RetornosStd
    /\ estandarizadas = <<>> /\ pcStd = "start"
    /\ RegIdle /\ LocalIdle /\ MainIdle /\ SendIdle /\ RunIdle

EstandarizarVariables ==
    /\ pcStd = "start"
    /\ estandarizadas' = estandarizar_variables(retornos)
    /\ pcStd' = "done"
    /\ UNCHANGED <<varsTexto, varsMain, varsSend, varsRet, varsReg, varsLocal, varsRun>>

NextStd == EstandarizarVariables

SpecStd == InitStd /\ [][NextStd]_vars

\* C6: the standardized value is 0 whenever the trailing 90-row window holds
\* fewer than 10 non-null values, and no standardized cell is null
C6_MenosDe10EsCero ==
    pcStd = "done" =>
        \A periodo \in DOMAIN retornos : \A tk \in DOMAIN retornos[periodo] :
            \A t \in DOMAIN retornos[periodo][tk] :
                LET col == retornos[periodo][tk]
                    out == estandarizadas[periodo][tk][t]
                IN  /\ ~IsNaN(out)
                    /\ CuentaNoNulos(col, PrimeraFila(t, Ventana), t) < MinObs
                       => out = <<0>>

\* a full 90-row window with exactly 9 non-null values, standardized to 0
C6_Witness ==
    /\ pcStd = "done"
    /\ \E periodo \in DOMAIN retornos : \E tk \in DOMAIN retornos[periodo] :
           \E t \in DOMAIN retornos[periodo][tk] :
               /\ t >= Ventana - 1
               /\ CuentaNoNulos(retornos[periodo][tk], t - Ventana + 1, t) = MinObs - 1
               /\ estandarizadas[periodo][tk][t] = <<0>>

\* C7: whenever the window (up to 90 rows) holds at least 10 non-null values, a
\* non-zero standard deviation and a non-null current value, the output is
\* (value - window mean) / window std over the non-null values
C7_ZScoreDesde10 ==
    pcStd = "done" =>
        \A periodo \in DOMAIN retornos : \A tk \in DOMAIN retornos[periodo] :
            \A t \in DOMAIN retornos[periodo][tk] :
                LET col == retornos[periodo][tk]
                    a == PrimeraFila(t, Ventana)
                IN  (/\ CuentaNoNulos(col, a, t) >= MinObs
                     /\ VarianzaNum(col, a, t) # 0
                     /\ ~IsNaN(col[t]))
                    => estandarizadas[periodo][tk][t] = ZDecimos(col, a, t, t)

(***************************************************************************)
(* Rational arithmetic for the regression and the contributions: <<n, d>>  *)
(* in lowest terms, d > 0.                                                 *)
(***************************************************************************)
Abs(x) == IF x < 0 THEN -x ELSE x

RECURSIVE MCD(_, _)
MCD(a, b) == IF b = 0 THEN a ELSE MCD(b, a % b)

Rac(n, d) == LET g == MCD(Abs(n), d) IN <<n \div g, d \div g>>

Cero == <<0, 1>>

Uno == <<1, 1>>

\* over the least common denominator: the terms stay small
RSuma(x, y) ==
    LET g == MCD(x[2], y[2])
    IN  Rac(x[1] * (y[2] \div g) + y[1] * (x[2] \div g), (x[2] \div g) * y[2])

RResta(x, y) == Rac(x[1] * y[2] - y[1] * x[2], x[2] * y[2])

RMul(x, y) == Rac(x[1] * y[1], x[2] * y[2])

\* x / y for y # 0
RDiv(x, y) ==
    IF y[1] > 0 THEN Rac(x[1] * y[2], x[2] * y[1])
    ELSE Rac(-(x[1] * y[2]), x[2] * (-y[1]))

RNeg(x) == <<-x[1], x[2]>>

RAbs(x) == <<Abs(x[1]), x[2]>>

RMenor(x, y) == x[1] * y[2] < y[1] * x[2]

\* Python's min(a, b) and max(a, b): the first argument unless the second is
\* strictly smaller (greater)
PyMin(a, b) == IF RMenor(b, a) THEN b ELSE a

PyMax(a, b) == IF RMenor(a, b) THEN b ELSE a

\* sum of the non-NaN cells f[j], j \in a..b (by halves: the depth stays small)
RECURSIVE RSumaFilas(_, _, _)
RSumaFilas(f, a, b) ==
    IF a > b THEN Cero
    ELSE IF a = b THEN (IF IsNaN(f[a]) THEN Cero ELSE f[a])
    ELSE LET m == (a + b) \div 2
         IN  RSuma(RSumaFilas(f, a, m), RSumaFilas(f, m + 1, b))

\* Series.mean() of the rows a..b, skipping NaN; NaN when none is left
RMedia(f, a, b) ==
    LET n == CuentaNoNulos(f, a, b)
    IN  IF n = 0 THEN NaN ELSE RDiv(RSumaFilas(f, a, b), <<n, 1>>)

\* sum of the cells fila[c], c \in cols
RECURSIVE RSumaCols(_, _)
RSumaCols(fila, cols) ==
    IF cols = {} THEN Cero
    ELSE LET c == CHOOSE x \in cols : TRUE
         IN  RSuma(fila[c], RSumaCols(fila, cols \ {c}))

(***************************************************************************)
(* calcular_regresiones.  A factor frame is a function from the row index  *)
(* 0..n-1 to a row [column |-> cell]; a coefficient table likewise.        *)
(***************************************************************************)
Rango(sq) == {sq[k] : k \in DOMAIN sq}

\* x_cols of calcular_regresiones (lines 218-221)
x_cols(periodo) ==
    IF periodo = "1d" THEN <<"DXY_L1", "LA_USD", "BZ_lag1">>
    ELSE <<"DXY_L1", "LA_USD", "BZ_lag1", "Local5d">>

ColsBeta(periodo) == {"const"} \cup Rango(x_cols(periodo))

Columna(df, c) == [t \in DOMAIN df |-> df[t][c]]

FilaNaN(cols) == [c \in cols |-> NaN]

TieneNaN(fila) == \E c \in DOMAIN fila : IsNaN(fila[c])

\* X = sm.add_constant(df[x_cols]), the nulls left in
MatrizX_sin_fillna(df, periodo) ==
    [t \in DOMAIN df |->
        [c \in ColsBeta(periodo) |-> IF c = "const" THEN Uno ELSE df[t][c]]]

\* X = sm.add_constant(df[x_cols].fillna(0))
MatrizX(df, periodo) ==
    [t \in DOMAIN df |->
        [c \in ColsBeta(periodo) |->
            IF c = "const" THEN Uno
            ELSE IF IsNaN(df[t][c]) THEN Cero ELSE df[t][c]]]

\* y = df['COP=X'].fillna(0)
VectorY(df) == [t \in DOMAIN df |-> IF IsNaN(df[t]["COP=X"]) THEN Cero ELSE df[t]["COP=X"]]

VentanaReg == 90

MinValidas == 30

VentanaAnual == 252

MinRecientes == 10

\* range(90, len(df)): the first row of the loop over n rows
rango_desde_0(n) == 0..(n - 1)

rango_regresion(n) == VentanaReg..(n - 1)

\* a window that reaches the current row: iloc[i-90:i+1]
ventana_filas_con_hoy(i) == (i - VentanaReg)..i

\* the rows of X.iloc[i-90:i] and y.iloc[i-90:i]
ventana_filas(i) == (i - VentanaReg)..(i - 1)

\* the rows of the window that valid_mask keeps: X_valid, y_valid
Validas(X, y, i) ==
    {j \in ventana_filas(i) :
        j \in DOMAIN X /\ ~TieneNaN(X[j]) /\ ~IsNaN(y[j])}

\* the mean taken over betas.iloc[:i+1], the current row included
betas_historicas_con_hoy(bs, i, cols) == [c \in cols |-> RMedia(Columna(bs, c), 0, i)]

\* betas.iloc[:i].mean(): column-wise mean of the defined cells above row i
betas_historicas(bs, i, cols) == [c \in cols |-> RMedia(Columna(bs, c), 0, i - 1)]

\* the except branch without its "else 0": an undefined mean is stored as it is
fila_fallback_sin_cero(bs, i, cols) == betas_historicas(bs, i, cols)

\* betas_historicas.values if not betas_historicas.isna().any() else 0
fila_fallback(bs, i, cols) ==
    LET h == betas_historicas(bs, i, cols)
    IN  IF ~TieneNaN(h) THEN h ELSE [c \in cols |-> Cero]

\* model.predict(X_current): the fitted value of row i
Prediccion(params, X, i) ==
    RSumaCols([c \in DOMAIN params |-> RMul(params[c], X[i][c])], DOMAIN params)

\* the R2 of the current day, lines 253-266
r2_hoy(params, X, y, i) ==
    IF ~TieneNaN(X[i]) /\ ~IsNaN(y[i])
    THEN LET d == RResta(y[i], Prediccion(params, X, i))
             ss_res == RMul(d, d)
             a == IF i - VentanaAnual > 0 THEN i - VentanaAnual ELSE 0
         IN  IF CuentaNoNulos(y, a, i - 1) > MinRecientes
             THEN LET e == RResta(y[i], RMedia(y, a, i - 1))
                      ss_tot == RMul(e, e)
                  IN  IF RMenor(Cero, ss_tot) THEN RResta(Uno, RDiv(ss_res, ss_tot))
                      ELSE Cero
             ELSE Cero
    ELSE NaN

(***************************************************************************)
(* calcular_contribuciones                                                 *)
(***************************************************************************)
\* 0.8, the share of the day's move one factor may explain
Tope == <<4, 5>>

\* the clamp without its lower side: min(0.8 * cop_abs, contrib_raw)
capear_solo_arriba(contrib_raw, cop_abs) == PyMin(RMul(Tope, cop_abs), contrib_raw)

\* the clamp skipped on a day without movement
capear_si_hay_movimiento(contrib_raw, cop_abs) ==
    IF cop_abs = Cero THEN contrib_raw
    ELSE PyMax(RNeg(RMul(Tope, cop_abs)), PyMin(RMul(Tope, cop_abs), contrib_raw))

\* max(-0.8 * cop_abs, min(0.8 * cop_abs, contrib_raw))
capear(contrib_raw, cop_abs) ==
    PyMax(RNeg(RMul(Tope, cop_abs)), PyMin(RMul(Tope, cop_abs), contrib_raw))

contrib_raw(df, bs, i, col) == RMul(bs[i][col], df[i][col])

\* the residual taken from the uncapped contributions
residual_sin_capear(df, bs, i, caps) ==
    RResta(df[i]["COP=X"],
           RSumaCols([c \in DOMAIN caps |-> contrib_raw(df, bs, i, c)], DOMAIN caps))

\* cop_actual - contribs.loc[fecha, x_cols].sum()
residual_value(df, bs, i, caps) == RResta(df[i]["COP=X"], RSumaCols(caps, DOMAIN caps))

\* x_cols of calcular_contribuciones (lines 293-296)
x_cols_contribuciones(periodo) ==
    IF periodo = "1d" THEN <<"DXY_L1", "LA_USD", "BZ_lag1">>
    ELSE <<"DXY_L1", "LA_USD", "BZ_lag1", "Local5d">>

\* the row of contribs for date i, NaN where the loop assigns nothing
fila_contribs(df, bs, i, periodo) ==
    LET cols == Rango(x_cols_contribuciones(periodo))
    IN  IF i >= VentanaReg /\ ~TieneNaN(bs[i])
        THEN LET caps == [c \in cols |->
                             capear(contrib_raw(df, bs, i, c), RAbs(df[i]["COP=X"]))]
             IN  [c \in cols \cup {"residual"} |->
                     IF c = "residual" THEN residual_value(df, bs, i, caps) ELSE caps[c]]
        ELSE FilaNaN(cols \cup {"residual"})

\* contribs left as the loop wrote it, without the fillna
fillna0_fila_omitido(fila) == fila

\* contribs.fillna(0)
fillna0_fila(fila) == [c \in DOMAIN fila |-> IF IsNaN(fila[c]) THEN Cero ELSE fila[c]]

calcular_contribuciones(fs, ms) ==
    [periodo \in Periodos |->
        [i \in DOMAIN fs[periodo] |->
            fillna0_fila(fila_contribs(fs[periodo], ms[periodo].betas, i, periodo))]]

(***************************************************************************)
(* crear_tabla_resultado, calcular_metricas_adicionales, calcular_scores.  *)
(* A correlation is held as its sign and its square (the square is         *)
(* rational, the correlation is not); a score as the pair (q, s) that      *)
(* stands for 0.6 * sqrt(q) + 0.4 * s.                                     *)
(***************************************************************************)
\* ultimo_dia = factores[periodo].index.max(), as a row index
ultimo_dia(df) == Cardinality(DOMAIN df) - 1

\* the coefficient read without the pd.isna test
beta_actual_sin_guardia(bs, u, col) == bs[u][col]

\* float(betas[col].loc[ultimo_dia]) if ... not pd.isna(...) else 0.0
beta_actual(bs, u, col) == IF IsNaN(bs[u][col]) THEN Cero ELSE bs[u][col]

\* float(x) if not pd.isna(x) else 0.0
float_o_cero(x) == IF IsNaN(x) THEN Cero ELSE x

\* 0.001
EpsilonNota == <<1, 10 * 10 * 10>>

\* the first comparison taken as <=: an unreduced contribution is flagged too
nota_menor_o_igual(contrib_actual, raw) ==
    IF IsNaN(contrib_actual) \/ IsNaN(raw) THEN ""
    ELSE IF ~RMenor(RAbs(raw), RAbs(contrib_actual)) /\ RMenor(EpsilonNota, RAbs(raw))
    THEN "capped" ELSE ""

\* "capped" if abs(contrib_actual) < abs(contrib_raw) and abs(contrib_raw) > 0.001;
\* a comparison with NaN is false
nota(contrib_actual, raw) ==
    IF IsNaN(contrib_actual) \/ IsNaN(raw) THEN ""
    ELSE IF RMenor(RAbs(contrib_actual), RAbs(raw)) /\ RMenor(EpsilonNota, RAbs(raw))
    THEN "capped" ELSE ""

VentanaCorr == 5

CorrCero == [signo |-> 0, cuadrado |-> Cero]

Signo(x) == IF x[1] > 0 THEN 1 ELSE IF x[1] < 0 THEN -1 ELSE 0

\* ventana_datos[col].rolling(5).corr(ventana_datos['COP=X']).loc[ultimo_dia]:
\* NaN without 5 complete pairs or with a constant series in the window
corr_5d(df, col, u) ==
    LET a == u - VentanaCorr + 1
        completa == a >= 0 /\ \A t \in a..u : ~IsNaN(df[t][col]) /\ ~IsNaN(df[t]["COP=X"])
    IN  IF ~completa THEN NaN
        ELSE LET xs == [t \in a..u |-> df[t][col]]
                 ys == [t \in a..u |-> df[t]["COP=X"]]
                 n == <<VentanaCorr, 1>>
                 sx == RSumaFilas(xs, a, u)
                 sy == RSumaFilas(ys, a, u)
                 sxy == RSumaFilas([t \in a..u |-> RMul(xs[t], ys[t])], a, u)
                 sxx == RSumaFilas([t \in a..u |-> RMul(xs[t], xs[t])], a, u)
                 syy == RSumaFilas([t \in a..u |-> RMul(ys[t], ys[t])], a, u)
                 cov == RResta(RMul(n, sxy), RMul(sx, sy))
                 vx == RResta(RMul(n, sxx), RMul(sx, sx))
                 vy == RResta(RMul(n, syy), RMul(sy, sy))
             IN  IF vx = Cero \/ vy = Cero THEN NaN
                 ELSE [signo |-> Signo(cov),
                       cuadrado |-> RDiv(RMul(cov, cov), RMul(vx, vy))]

\* float(corr_rolling.loc[ultimo_dia]) if ... not pd.isna(...) else 0.0
corr_value(df, col, u) ==
    IF IsNaN(corr_5d(df, col, u)) THEN CorrCero ELSE corr_5d(df, col, u)

\* estabilidad = 0.5 for every factor row (line 428)
Estabilidad == <<1, 2>>

ScoreCero == [corr_abs_cuadrado |-> Cero, estabilidad_norm |-> Cero]

\* the rescaling with 0 in place of 0.5 when all stabilities are equal
estabilidad_norm_cero(e, emin, emax) ==
    IF RMenor(emin, emax) THEN RDiv(RResta(e, emin), RResta(emax, emin)) ELSE Cero

\* line 440: (e - min) / (max - min) if max > min else 0.5
estabilidad_norm(e, emin, emax) ==
    IF RMenor(emin, emax) THEN RDiv(RResta(e, emin), RResta(emax, emin))
    ELSE <<1, 2>>

\* calcular_scores on one factor row: every entry of estabilidades is the 0.5
\* of line 428, and so are their min and max
score_factor(corr) ==
    [corr_abs_cuadrado |-> corr.cuadrado,
     estabilidad_norm |-> estabilidad_norm(Estabilidad, Estabilidad, Estabilidad)]

fila_factor(cs, df, bs, u, col) ==
    LET b == beta_actual(bs, u, col)
        corr == corr_value(df, col, u)
    IN  [factor |-> col,
         retorno_hoy |-> float_o_cero(df[u][col]),
         beta_rolling |-> b,
         contribucion |-> float_o_cero(cs[u][col]),
         corr_5d_rolling |-> corr,
         score_factor |-> score_factor(corr),
         note |-> nota(cs[u][col], IF IsNaN(b) \/ IsNaN(df[u][col]) THEN NaN
                                   ELSE RMul(b, df[u][col]))]

fila_residual(cs, u) ==
    [factor |-> "residual",
     retorno_hoy |-> Cero,
     beta_rolling |-> Cero,
     contribucion |-> float_o_cero(cs[u]["residual"]),
     corr_5d_rolling |-> CorrCero,
     score_factor |-> ScoreCero,
     note |-> ""]

\* a table that lists the three factors of the 1-day horizon for both horizons
x_cols_tabla_sin_local(periodo) == <<"DXY_L1", "LA_USD", "BZ_lag1">>

\* x_cols of crear_tabla_resultado (lines 347-350)
x_cols_tabla(periodo) ==
    IF periodo = "1d" THEN <<"DXY_L1", "LA_USD", "BZ_lag1">>
    ELSE <<"DXY_L1", "LA_USD", "BZ_lag1", "Local5d">>

crear_tabla_resultado(cs, fs, ms) ==
    [periodo \in Periodos |->
        LET u == ultimo_dia(fs[periodo])
            cols == x_cols_tabla(periodo)
        IN  [k \in 1..(Len(cols) + 1) |->
                IF k <= Len(cols)
                THEN fila_factor(cs[periodo], fs[periodo], ms[periodo].betas, u, cols[k])
                ELSE fila_residual(cs[periodo], u)]]

(***************************************************************************)
(* Inputs of the regression: the factor frames crear_factores returns.     *)
(* Standardized values are 0 until a full 90-row window exists: row 89 is  *)
(* the first that can differ from 0 in the 1-day frame (row 90 for its     *)
(* lagged columns, whose row 0 is NaN), row 93 in the 5-day frame.  From   *)
(* there on the rows follow three templates in turn: a target of exactly   *)
(* 0, a large target, a small target with large factor values.             *)
(***************************************************************************)
MaxExtra == 4

MaxFallos == 1

Q(n) == <<n, 1>>

Plantillas ==
    << [t |-> Q(0),  dxy |-> Q(2), la |-> Q(-1),  bz |-> Q(1),  loc |-> Q(3)],
       [t |-> Q(5),  dxy |-> Q(1), la |-> <<1, 2>>, bz |-> Q(-1), loc |-> Q(1)],
       [t |-> Q(-1), dxy |-> Q(3), la |-> Q(-2),  bz |-> Q(2),  loc |-> Q(-3)] >>

PrimeraFilaStd(periodo) ==
    IF periodo = "1d" THEN Ventana - 1 ELSE Ventana - 1 + VentanaRet - 1

FilaFactores(periodo, esc, t) ==
    LET p == Plantillas[((t + esc) % 3) + 1]
        libre == t >= PrimeraFilaStd(periodo)
        lag == IF periodo = "1d" THEN 1 ELSE 0
        libreLag == t >= PrimeraFilaStd(periodo) + lag
    IN  [c \in {"COP=X", "DXY_L1", "LA_USD", "BZ_lag1", "Local5d"} |->
            CASE c = "COP=X" -> IF libre THEN p.t ELSE Cero
              [] c = "LA_USD" -> IF libre THEN p.la ELSE Cero
              [] c = "Local5d" -> IF libre /\ periodo = "5d" THEN p.loc ELSE Cero
              [] c = "DXY_L1" -> IF periodo = "1d" /\ t = 0 THEN NaN
                                 ELSE IF libreLag THEN p.dxy ELSE Cero
              [] c = "BZ_lag1" -> IF periodo = "1d" /\ t = 0 THEN NaN
                                  ELSE IF libreLag THEN p.bz ELSE Cero]

FramesReg ==
    { [periodo \in Periodos |->
          [t \in 0..(n - 1) |->
              FilaFactores(periodo, IF periodo = "1d" THEN e1 ELSE e5, t)]] :
      n \in VentanaReg..(VentanaReg + MaxExtra), e1 \in 0..2, e5 \in 0..2 }

(***************************************************************************)
(* sm.OLS(y_valid, X_valid).fit() is library code, a function of the rows  *)
(* it is given: its coefficients are drawn from two rows, by the parity of *)
(* the number of rows with a non-zero target among those it is given, and  *)
(* which row goes with which parity is chosen with the input.  A fit or a  *)
(* scoring that raises is a choice of the step, at most MaxFallos times in *)
(* a run.                                                                  *)
(***************************************************************************)
PlantillasBeta ==
    << [const |-> <<1, 2>>, DXY_L1 |-> Q(1), LA_USD |-> Q(1), BZ_lag1 |-> Q(-1),
        Local5d |-> Q(2)],
       [const |-> Q(0), DXY_L1 |-> Q(-3), LA_USD |-> <<1, 2>>, BZ_lag1 |-> Q(2),
        Local5d |-> Q(1)] >>

ols_params(periodo, y, filas) ==
    LET movidas == Cardinality({j \in filas : y[j] # Cero})
    IN  [c \in ColsBeta(periodo) |->
            PlantillasBeta[((movidas + oraculo) % 2) + 1][c]]

NFilasReg == Cardinality(DOMAIN factores["1d"])

Init ==
    /\ TextoIdle /\ RetIdle /\ StdIdle /\ LocalIdle /\ MainIdle /\ SendIdle /\ RunIdle
    /\ factores \in FramesReg
    /\ oraculo \in 0..1
    /\ pendientes = <<"1d", "5d">>
    /\ betas = <<>> /\ r2_scores = <<>> /\ iReg = 0
    /\ eventos = [periodo \in Periodos |-> <<>>]
    /\ fallos = 0
    /\ modelos = <<>>
    /\ contribuciones = <<>>
    /\ tablas = <<>>
    /\ pc = "periodo"

\* lines 214-232: the next horizon's empty coefficient table and R2 series
IniciarPeriodo ==
    /\ pc = "periodo"
    /\ betas' = [t \in DOMAIN factores[Head(pendientes)] |->
                    FilaNaN(ColsBeta(Head(pendientes)))]
    /\ r2_scores' = [t \in DOMAIN factores[Head(pendientes)] |-> NaN]
    /\ iReg' = IF rango_regresion(NFilasReg) = {} THEN NFilasReg
               ELSE CHOOSE x \in rango_regresion(NFilasReg) :
                        \A z \in rango_regresion(NFilasReg) : x <= z
    /\ pc' = "bucle"
    /\ UNCHANGED <<varsTexto, varsMain, varsSend, varsRet, varsStd, varsLocal, varsRun,
                   factores, oraculo, pendientes, eventos, fallos,
                   modelos, contribuciones, tablas>>

\* lines 235-273: one pass of the loop body, for date iReg
IterarRegresion ==
    /\ pc = "bucle"
    /\ iReg < NFilasReg
    /\ LET periodo == Head(pendientes)
           X == MatrizX(factores[periodo], periodo)
           y == VectorY(factores[periodo])
           params == ols_params(periodo, y, Validas(X, y, iReg))
           ajustada == [betas EXCEPT ![iReg] = params]
       IN  IF Cardinality(Validas(X, y, iReg)) >= MinValidas
           THEN \E res \in {"fit", "raise_fit", "raise_score"} :
                   /\ res # "fit" => fallos < MaxFallos
                   /\ fallos' = IF res = "fit" THEN fallos ELSE fallos + 1
                   /\ eventos' = [eventos EXCEPT ![periodo] = @ @@ (iReg :> res)]
                   /\ betas' =
                        CASE res = "fit" -> ajustada
                          [] res = "raise_fit" ->
                               [betas EXCEPT ![iReg] =
                                   fila_fallback(betas, iReg, ColsBeta(periodo))]
                          [] res = "raise_score" ->
                               [ajustada EXCEPT ![iReg] =
                                   fila_fallback(ajustada, iReg, ColsBeta(periodo))]
                   /\ r2_scores' =
                        IF res = "fit"
                        THEN LET r2 == r2_hoy(params, X, y, iReg)
                             IN  IF IsNaN(r2) THEN r2_scores
                                 ELSE [r2_scores EXCEPT ![iReg] = r2]
                        ELSE r2_scores
           ELSE /\ eventos' = [eventos EXCEPT ![periodo] = @ @@ (iReg :> "skip")]
                /\ UNCHANGED <<betas, r2_scores, fallos>>
    /\ iReg' = iReg + 1
    /\ UNCHANGED <<varsTexto, varsMain, varsSend, varsRet, varsStd, varsLocal, varsRun,
                   factores, oraculo, pendientes, modelos,
                   contribuciones, tablas, pc>>

\* lines 275-278: the loop is over, the horizon's model is stored
GuardarModelo ==
    /\ pc = "bucle"
    /\ iReg >= NFilasReg
    /\ modelos' = modelos @@ (Head(pendientes) :> [betas |-> betas, r2 |-> r2_scores])
    /\ pendientes' = Tail(pendientes)
    /\ pc' = IF Tail(pendientes) = <<>> THEN "contribuciones" ELSE "periodo"
    /\ UNCHANGED <<varsTexto, varsMain, varsSend, varsRet, varsStd, varsLocal, varsRun,
                   factores, oraculo, betas, r2_scores, iReg,
                   eventos, fallos, contribuciones, tablas>>

CalcularContribuciones ==
    /\ pc = "contribuciones"
    /\ contribuciones' = calcular_contribuciones(factores, modelos)
    /\ pc' = "tablas"
    /\ UNCHANGED <<varsTexto, varsMain, varsSend, varsRet, varsStd, varsLocal, varsRun,
                   factores, oraculo, pendientes, betas, r2_scores,
                   iReg, eventos, fallos, modelos, tablas>>

CrearTablaResultado ==
    /\ pc = "tablas"
    /\ tablas' = crear_tabla_resultado(contribuciones, factores, modelos)
    /\ pc' = "done"
    /\ UNCHANGED <<varsTexto, varsMain, varsSend, varsRet, varsStd, varsLocal, varsRun,
                   factores, oraculo, pendientes, betas, r2_scores,
                   iReg, eventos, fallos, modelos, contribuciones>>

Next ==
    \/ IniciarPeriodo \/ IterarRegresion \/ GuardarModelo
    \/ CalcularContribuciones \/ CrearTablaResultado

Spec == Init /\ [][Next]_vars

\* what the fit of date t returns on the rows the loop body hands it
Ajuste(periodo, t) ==
    LET X == MatrizX(factores[periodo], periodo)
        y == VectorY(factores[periodo])
    IN  ols_params(periodo, y, Validas(X, y, t))

(***************************************************************************)
(* Properties of calcular_regresiones and calcular_contribuciones          *)
(***************************************************************************)
\* the horizons whose coefficient table exists, and the rows of it the loop has left
Tabla(periodo) ==
    IF periodo \in DOMAIN modelos THEN modelos[periodo].betas
    ELSE IF pc = "bucle" /\ Head(pendientes) = periodo THEN betas
    ELSE <<>>

SerieR2(periodo) ==
    IF periodo \in DOMAIN modelos THEN modelos[periodo].r2 ELSE r2_scores

Hechas(periodo) ==
    IF periodo \in DOMAIN modelos THEN DOMAIN modelos[periodo].betas
    ELSE IF pc = "bucle" /\ Head(pendientes) = periodo
         THEN {t \in DOMAIN betas : t < iReg}
    ELSE {}

Evento(periodo, t) ==
    IF t \in DOMAIN eventos[periodo] THEN eventos[periodo][t] ELSE "none"

Fallo(periodo, t) == Evento(periodo, t) \in {"raise_fit", "raise_score"}

\* the first row with a defined coefficient, the number of rows when there is none
PrimeraDefinida(bs) ==
    LET definidas == {s \in DOMAIN bs : ~TieneNaN(bs[s])}
    IN  IF definidas = {} THEN Cardinality(DOMAIN bs)
        ELSE CHOOSE s \in definidas : \A z \in definidas : s <= z

\* the column-wise mean of the coefficient rows above row t, NaN where there is
\* none; `primera` is PrimeraDefinida(bs): the rows above it add nothing to a mean
MediaPrevia(bs, cols, primera, t) ==
    IF t <= primera THEN [c \in cols |-> NaN]
    ELSE [c \in cols |-> RMedia([s \in primera..(t - 1) |-> bs[s][c]], primera, t - 1)]

\* no row above t has a defined coefficient
NoHayPrevia(bs, t) == t <= PrimeraDefinida(bs)

Objetivo(periodo, t) == factores[periodo][t]["COP=X"]

SumaContribs(periodo, t) ==
    RSumaCols(contribuciones[periodo][t], Rango(x_cols(periodo)))

Definida(periodo, t) == t >= VentanaReg /\ ~TieneNaN(modelos[periodo].betas[t])

Cruda(periodo, t, c) == RMul(modelos[periodo].betas[t][c], factores[periodo][t][c])

FilaCero(periodo, t) ==
    \A c \in DOMAIN contribuciones[periodo][t] : contribuciones[periodo][t][c] = Cero

\* C1 as stated: for every horizon and every date, the capped contributions plus
\* the residual add up to the target
C1_SumaEnTodaFecha ==
    pc = "done" =>
        \A periodo \in Periodos : \A t \in DOMAIN factores[periodo] :
            RSuma(SumaContribs(periodo, t), contribuciones[periodo][t]["residual"])
                = Objetivo(periodo, t)

\* C1 amended: the capped contributions plus the residual add up to the target on
\* every date with index >= 90 and a fully defined coefficient row; on every other
\* date all contributions and the residual are 0
C1_SumaDesde90 ==
    pc = "done" =>
        \A periodo \in Periodos : \A t \in DOMAIN factores[periodo] :
            IF Definida(periodo, t)
            THEN RSuma(SumaContribs(periodo, t), contribuciones[periodo][t]["residual"])
                     = Objetivo(periodo, t)
            ELSE FilaCero(periodo, t)

\* a date >= 90 with a moving target on which the clamp cut a contribution
C1_Witness ==
    /\ pc = "done"
    /\ \E periodo \in Periodos : \E t \in DOMAIN factores[periodo] :
           /\ Definida(periodo, t)
           /\ Objetivo(periodo, t) # Cero
           /\ \E c \in Rango(x_cols(periodo)) :
                  contribuciones[periodo][t][c] # Cruda(periodo, t, c)

\* C2: every stored contribution c satisfies |c| <= 0.8 * |target of that date|
C2_TopeContribucion ==
    pc = "done" =>
        \A periodo \in Periodos : \A t \in DOMAIN factores[periodo] :
            \A c \in Rango(x_cols(periodo)) :
                ~RMenor(RMul(Tope, RAbs(Objetivo(periodo, t))),
                        RAbs(contribuciones[periodo][t][c]))

\* a negative contribution cut to -0.8 * |target|, and a date filled with 0
C2_Witness ==
    /\ pc = "done"
    /\ \E periodo \in Periodos : \E t \in DOMAIN factores[periodo] :
           /\ Definida(periodo, t)
           /\ \E c \in Rango(x_cols(periodo)) :
                  /\ RMenor(Cruda(periodo, t, c), contribuciones[periodo][t][c])
                  /\ contribuciones[periodo][t][c]
                         = RNeg(RMul(Tope, RAbs(Objetivo(periodo, t))))
                  /\ contribuciones[periodo][t][c] # Cero
    /\ \E periodo \in Periodos : \E t \in DOMAIN factores[periodo] :
           ~Definida(periodo, t) /\ Objetivo(periodo, t) # Cero

\* C3: on a date whose target is exactly 0 every contribution and the residual are 0
C3_ObjetivoCero ==
    pc = "done" =>
        \A periodo \in Periodos : \A t \in DOMAIN factores[periodo] :
            Objetivo(periodo, t) = Cero => FilaCero(periodo, t)

\* a date >= 90 with target 0 whose uncapped contribution is not 0
C3_Witness ==
    /\ pc = "done"
    /\ \E periodo \in Periodos : \E t \in DOMAIN factores[periodo] :
           /\ Definida(periodo, t)
           /\ Objetivo(periodo, t) = Cero
           /\ \E c \in Rango(x_cols(periodo)) : Cruda(periodo, t, c) # Cero
           /\ FilaCero(periodo, t)

\* C8: a regression is fitted for date i only if i >= 90 and the window [i-90, i)
\* has at least 30 valid rows; below either threshold the coefficient row is the
\* column-wise mean of the rows computed before i, undefined when there is none
C8_UmbralesRegresion ==
    \A periodo \in Periodos :
        LET X == MatrizX(factores[periodo], periodo)
            y == VectorY(factores[periodo])
            bs == Tabla(periodo)
            primera == PrimeraDefinida(bs)
        IN  \A t \in Hechas(periodo) :
                LET nValidas == Cardinality(Validas(X, y, t))
                IN  /\ Evento(periodo, t) \in {"fit", "raise_fit", "raise_score"}
                       => t >= VentanaReg /\ nValidas >= MinValidas
                    /\ (t < VentanaReg \/ nValidas < MinValidas)
                       => bs[t] = MediaPrevia(bs, ColsBeta(periodo), primera, t)

\* row 89 was left undefined without a fit and row 90 was fitted
C8_Witness ==
    \E periodo \in Periodos :
        /\ {VentanaReg - 1, VentanaReg} \subseteq Hechas(periodo)
        /\ Evento(periodo, VentanaReg - 1) = "none"
        /\ TieneNaN(Tabla(periodo)[VentanaReg - 1])
        /\ Evento(periodo, VentanaReg) = "fit"
        /\ ~TieneNaN(Tabla(periodo)[VentanaReg])

FilasAlternativas(periodo) ==
    {FilaFactores(periodo, esc, PrimeraFilaStd(periodo) + 1) : esc \in 0..2}
    \cup {[c \in {"COP=X", "DXY_L1", "LA_USD", "BZ_lag1", "Local5d"} |-> NaN]}

\* C20: the coefficients stored by a fit of date t are those of the 90 rows
\* t-90 .. t-1 of X and y, and they stay the same when row t of the input is
\* replaced by any other row
C20_VentanaSinHoy ==
    \A periodo \in Periodos : \A t \in Hechas(periodo) :
        Evento(periodo, t) = "fit" =>
            LET df == factores[periodo]
                X == MatrizX(df, periodo)
                y == VectorY(df)
            IN  /\ t >= VentanaReg
                /\ Validas(X, y, t) = (t - VentanaReg)..(t - 1)
                /\ Tabla(periodo)[t]
                       = ols_params(periodo, y, (t - VentanaReg)..(t - 1))
                /\ \A fila \in FilasAlternativas(periodo) :
                       LET df2 == [df EXCEPT ![t] = fila]
                           X2 == MatrizX(df2, periodo)
                           y2 == VectorY(df2)
                       IN  ols_params(periodo, y2, Validas(X2, y2, t))
                               = Tabla(periodo)[t]

\* a fit of a date after row 90 whose own row has a target other than 0, with
\* the rows before it holding targets other than 0 too
C20_Witness ==
    \E periodo \in Periodos : \E t \in Hechas(periodo) :
        /\ Evento(periodo, t) = "fit"
        /\ t > VentanaReg
        /\ factores[periodo][t]["COP=X"] # Cero
        /\ factores[periodo][t - 1]["COP=X"] # Cero
        /\ \E fila \in FilasAlternativas(periodo) : fila["COP=X"] = Cero

\* C29: at every pass of the loop, the window of the 90 rows before the date
\* holds exactly 90 valid rows, whatever nulls the factors hold; no pass so far
\* has taken the fewer-than-30 branch, and every date from the 90th up to the
\* current one has had its regression attempted
C29_VentanaCompleta ==
    (pc = "bucle" /\ pendientes # <<>>) =>
        LET periodo == Head(pendientes)
            X == MatrizX(factores[periodo], periodo)
            y == VectorY(factores[periodo])
        IN  /\ iReg < NFilasReg => Cardinality(Validas(X, y, iReg)) = VentanaReg
            /\ DOMAIN eventos[periodo] = VentanaReg..(iReg - 1)
            /\ \A i \in DOMAIN eventos[periodo] :
                   eventos[periodo][i] \in {"fit", "raise_fit", "raise_score"}

\* the pass for the 90th date is over and its window held a row with nulls
C29_Witness ==
    /\ pc = "bucle" /\ pendientes # <<>> /\ Head(pendientes) = "1d"
    /\ iReg = VentanaReg + 1
    /\ \E j \in ventana_filas(VentanaReg) : TieneNaN(factores["1d"][j])
    /\ eventos["1d"][VentanaReg] = "fit"

(***************************************************************************)
(* The rows of calcular_contribuciones                                     *)
(***************************************************************************)
\* x held between lo and hi
Clamp(x, lo, hi) == IF RMenor(x, lo) THEN lo ELSE IF RMenor(hi, x) THEN hi ELSE x

\* C21: a date before row 90 or with an undefined coefficient has 0 in every
\* contribution and in the residual; on every other date each contribution is
\* coefficient * factor held within +-0.8 * |target| and the residual is the
\* target minus the sum of those contributions
C21_FilasContribuciones ==
    pc \in {"tablas", "done"} =>
        \A periodo \in Periodos : \A t \in DOMAIN factores[periodo] :
            LET fila == contribuciones[periodo][t]
                tope == RMul(Tope, RAbs(Objetivo(periodo, t)))
            IN  IF t < VentanaReg \/ TieneNaN(modelos[periodo].betas[t])
                THEN \A c \in DOMAIN fila : fila[c] = Cero
                ELSE /\ \A c \in Rango(x_cols(periodo)) :
                            fila[c] = Clamp(Cruda(periodo, t, c), RNeg(tope), tope)
                     /\ fila["residual"]
                            = RResta(Objetivo(periodo, t), SumaContribs(periodo, t))

\* a computed row with a contribution reduced by the clamp, a computed row with
\* one left as it was, and a date before row 90 with a target other than 0
C21_Witness ==
    /\ pc = "done"
    /\ \E periodo \in Periodos : \E t \in DOMAIN factores[periodo] :
           /\ Definida(periodo, t)
           /\ \E c \in Rango(x_cols(periodo)) :
                  /\ contribuciones[periodo][t][c] # Cruda(periodo, t, c)
                  /\ contribuciones[periodo][t][c] # Cero
    /\ \E periodo \in Periodos : \E t \in DOMAIN factores[periodo] :
           /\ Definida(periodo, t)
           /\ \E d \in Rango(x_cols(periodo)) :
                  /\ contribuciones[periodo][t][d] = Cruda(periodo, t, d)
                  /\ contribuciones[periodo][t][d] # Cero
           /\ contribuciones[periodo][t]["residual"] # Cero
    /\ \E periodo \in Periodos : \E t \in DOMAIN factores[periodo] :
           t < VentanaReg /\ Objetivo(periodo, t) # Cero

(***************************************************************************)
(* The factors of a horizon                                                *)
(***************************************************************************)
FactoresDe(periodo) ==
    IF periodo = "1d" THEN {"DXY_L1", "LA_USD", "BZ_lag1"}
    ELSE {"DXY_L1", "LA_USD", "BZ_lag1", "Local5d"}

\* C22: the coefficient rows, the contribution rows and the result table of a
\* horizon carry the same factors, three for 1d (no Local5d) and those three and
\* Local5d for 5d; the table has one row per factor and then the residual row
C22_MismosFactores ==
    \A periodo \in Periodos :
        /\ \A t \in DOMAIN Tabla(periodo) :
               DOMAIN Tabla(periodo)[t] = {"const"} \cup FactoresDe(periodo)
        /\ pc \in {"tablas", "done"} =>
               \A t \in DOMAIN contribuciones[periodo] :
                   DOMAIN contribuciones[periodo][t]
                       = FactoresDe(periodo) \cup {"residual"}
        /\ pc = "done" =>
               LET tb == tablas[periodo]
               IN  /\ Len(tb) = Cardinality(FactoresDe(periodo)) + 1
                   /\ {tb[k].factor : k \in 1..(Len(tb) - 1)} = FactoresDe(periodo)
                   /\ tb[Len(tb)].factor = "residual"

\* both tables are built and the 5-day one has a Local5d row with a contribution
C22_Witness ==
    /\ pc = "done"
    /\ Len(tablas["1d"]) = 4 /\ Len(tablas["5d"]) = 5
    /\ \E k \in DOMAIN tablas["5d"] :
           tablas["5d"][k].factor = "Local5d" /\ tablas["5d"][k].contribucion # Cero
    /\ \A k \in DOMAIN tablas["1d"] : tablas["1d"][k].factor # "Local5d"

(***************************************************************************)
(* Properties of crear_tabla_resultado                                     *)
(***************************************************************************)
Ultimo(periodo) == ultimo_dia(factores[periodo])

\* the rows of a horizon's table that belong to a factor
FilasFactor(periodo) ==
    {k \in DOMAIN tablas[periodo] : tablas[periodo][k].factor # "residual"}

\* C11 as stated: when the coefficient row of the latest date has a NaN component,
\* the contributions of that date use none of it and the table's beta_rolling holds
\* the historical mean of the prior coefficient rows in its place
C11_NaNUsaMedia ==
    pc = "done" =>
        \A periodo \in Periodos :
            LET bs == modelos[periodo].betas
                u == Ultimo(periodo)
                media == MediaPrevia(bs, ColsBeta(periodo), PrimeraDefinida(bs), u)
            IN  TieneNaN(bs[u]) =>
                    /\ FilaCero(periodo, u)
                    /\ \A k \in FilasFactor(periodo) :
                           tablas[periodo][k].beta_rolling
                               = media[tablas[periodo][k].factor]

\* C11 amended: when the coefficient row of the latest date has a NaN component,
\* every contribution and the residual of that date are 0, and the table shows
\* beta_rolling 0 and no "capped" note for every factor whose coefficient is NaN
C11_NaNUsaCero ==
    pc = "done" =>
        \A periodo \in Periodos :
            LET bs == modelos[periodo].betas
                u == Ultimo(periodo)
            IN  TieneNaN(bs[u]) =>
                    /\ FilaCero(periodo, u)
                    /\ \A k \in DOMAIN tablas[periodo] :
                           tablas[periodo][k].contribucion = Cero
                    /\ \A k \in FilasFactor(periodo) :
                           IsNaN(bs[u][tablas[periodo][k].factor]) =>
                               /\ tablas[periodo][k].beta_rolling = Cero
                               /\ tablas[periodo][k].note = ""

\* a latest date without coefficients whose target and one factor moved
C11_Witness ==
    /\ pc = "done"
    /\ \E periodo \in Periodos :
           /\ TieneNaN(modelos[periodo].betas[Ultimo(periodo)])
           /\ Objetivo(periodo, Ultimo(periodo)) # Cero
           /\ \E k \in FilasFactor(periodo) :
                  /\ tablas[periodo][k].retorno_hoy # Cero
                  /\ tablas[periodo][k].beta_rolling = Cero

Candidatos == <<"GXG", "ICOL">>

\* 1e-6
EpsilonEstabilidad == <<1, 10 * 10 * 10 * 10 * 10 * 10>>

\* 1 / (corr_rolling.std() + 1e-6)
estabilidad_de(std) ==
    IF IsNaN(std) THEN NaN ELSE RDiv(Uno, RSuma(std, EpsilonEstabilidad))

\* a > b on floats: false as soon as one side is NaN
FloatMayor(a, b) == ~IsNaN(a) /\ ~IsNaN(b) /\ RMenor(b, a)

\* max that lets a later key win a tie: the item changes on >=
RECURSIVE py_max_ultimo(_, _)
py_max_ultimo(items, clave) ==
    IF Len(items) = 1 THEN items[1]
    ELSE LET previo == py_max_ultimo(SubSeq(items, 1, Len(items) - 1), clave)
             ultimo == items[Len(items)]
         IN  IF ~FloatMayor(clave[previo], clave[ultimo]) THEN ultimo ELSE previo

\* Python's max(items, key=clave.get): the first item, replaced by a later one
\* only when its key is strictly greater
RECURSIVE py_max(_, _)
py_max(items, clave) ==
    IF Len(items) = 1 THEN items[1]
    ELSE LET previo == py_max(SubSeq(items, 1, Len(items) - 1), clave)
             ultimo == items[Len(items)]
         IN  IF FloatMayor(clave[ultimo], clave[previo]) THEN ultimo ELSE previo

\* the candidates the loop of line 156 finds among the columns, in its order
Presentes(cols) == SelectSeq(Candidatos, LAMBDA tk : tk \in cols)

\* lines 154-168, given the columns of the 5-day matrix and each present
\* candidate's corr_rolling.std()
elegir_riesgo_local(cols, stds) ==
    LET estabilidad == [tk \in Rango(Presentes(cols)) |-> estabilidad_de(stds[tk])]
    IN  IF Presentes(cols) # <<>> THEN py_max(Presentes(cols), estabilidad)
        ELSE "GXG"

(***************************************************************************)
(* Inputs of elegir_riesgo_local: the columns of the 5-day standardized    *)
(* matrix (the target and any of the candidates) and, per candidate, the   *)
(* standard deviation of its rolling correlation.  The function is called  *)
(* up to MaxLlamadas times on the same input.                              *)
(***************************************************************************)
MaxLlamadas == 2

StdValores ==
    {NaN, Cero, EpsilonEstabilidad, <<3, EpsilonEstabilidad[2]>>,
     <<9, EpsilonEstabilidad[2]>>}

ColumnasLocal == {{"COP=X"} \cup c : c \in SUBSET Rango(Candidatos)}

InitLocal ==
    /\ TextoIdle /\ RetIdle /\ StdIdle /\ RegIdle /\ MainIdle /\ SendIdle
    /\ \E cols \in ColumnasLocal :
           /\ columnas = [periodo \in Periodos |-> cols]
           /\ corr_std \in [Rango(Presentes(cols)) -> StdValores]
    /\ local_ticker = "" /\ llamadas = 0
    /\ precios = {} /\ huboFallo = FALSE /\ excepcion = "none"
    /\ archivo = "absent" /\ pcRun = "idle"

ElegirRiesgoLocal ==
    /\ llamadas < MaxLlamadas
    /\ local_ticker' = elegir_riesgo_local(columnas["5d"], corr_std)
    /\ llamadas' = llamadas + 1
    /\ UNCHANGED <<varsTexto, varsMain, varsSend, varsRet, varsStd, varsReg, varsRun, corr_std>>

NextLocal == ElegirRiesgoLocal

SpecLocal == InitLocal /\ [][NextLocal]_vars

\* the stability of a present candidate, as line 162 computes it
EstabilidadDe(tk) == estabilidad_de(corr_std[tk])

Presente(tk) == tk \in columnas["5d"]

\* C15: among the present candidates the one with the strictly higher stability
\* is returned, GXG on an exact tie, the only present candidate when there is
\* one, GXG when there is none; every call on the same input returns the same
C15_EligeMasEstable ==
    llamadas >= 1 =>
        /\ (Presente("GXG") /\ Presente("ICOL")) =>
               /\ FloatMayor(EstabilidadDe("ICOL"), EstabilidadDe("GXG"))
                      => local_ticker = "ICOL"
               /\ FloatMayor(EstabilidadDe("GXG"), EstabilidadDe("ICOL"))
                      => local_ticker = "GXG"
               /\ EstabilidadDe("GXG") = EstabilidadDe("ICOL") => local_ticker = "GXG"
        /\ (Presente("GXG") /\ ~Presente("ICOL")) => local_ticker = "GXG"
        /\ (Presente("ICOL") /\ ~Presente("GXG")) => local_ticker = "ICOL"
        /\ (~Presente("GXG") /\ ~Presente("ICOL")) => local_ticker = "GXG"
        /\ local_ticker = elegir_riesgo_local(columnas["5d"], corr_std)

\* the second call on two candidates of equal, defined stability returned GXG
C15_Witness ==
    /\ llamadas = 2
    /\ Presente("GXG") /\ Presente("ICOL")
    /\ ~IsNaN(EstabilidadDe("GXG"))
    /\ EstabilidadDe("GXG") = EstabilidadDe("ICOL")
    /\ local_ticker = "GXG"

(***************************************************************************)
(* run_relations.  construir_variables_base is computed on the long table; *)
(* of the later steps the model keeps what decides whether the run reaches *)
(* its end: the columns each step reads and adds, the number of dates, the *)
(* exceptions raised and caught, and the output file.  The values those    *)
(* steps compute are modelled by the specifications above.                 *)
(***************************************************************************)
Tickers(tabla) == {r.ticker : r \in tabla}

Fechas(tabla) == {r.date : r \in tabla}

\* the dates in increasing order: the index of the pivoted frame
IndiceFechas(tabla) ==
    LET fechas == Fechas(tabla)
    IN  [k \in 0..(Cardinality(fechas) - 1) |->
            CHOOSE d \in fechas : Cardinality({e \in fechas : e < d}) = k]

\* a pivot that never finds a duplicate
indice_duplicado_ignorado(tabla) == FALSE

\* DataFrame.pivot raises ValueError("Index contains duplicate entries, cannot
\* reshape") when two rows share (date, ticker)
indice_duplicado(tabla) ==
    Cardinality({<<r.date, r.ticker>> : r \in tabla}) < Cardinality(tabla)

\* df.pivot(index='date', columns='ticker', values='pct_change') on a table
\* without duplicates: NaN where the table has no row
pivot(tabla) ==
    LET orden == IndiceFechas(tabla)
    IN  [tk \in Tickers(tabla) |->
            [k \in DOMAIN orden |->
                LET filas == {r \in tabla : r.ticker = tk /\ r.date = orden[k]}
                IN  IF filas = {} THEN NaN
                    ELSE (CHOOSE r \in filas : TRUE).pct_change]]

\* lines 83-88 on a table without duplicates
construir_variables_base(tabla) ==
    LET df_pivot == pivot(tabla) IN [tk \in DOMAIN df_pivot |-> ffill(df_pivot[tk])]

(***************************************************************************)
(* Inputs of run_relations: a long table over the dates 0..n-1.  The       *)
(* ticker DX-Y.NYB has a row on every date; the other tickers lack the     *)
(* rows of one gap.  The percentage change of a ticker's first date is     *)
(* null.  A table may repeat the key of its last DX-Y.NYB row, with the    *)
(* same or with another value.  n is 1, MaxCortas, one more than the       *)
(* regression window, or the least n with a defined correlation spread.    *)
(***************************************************************************)
MaxCortas == 8

MaxGapRun == 6

OrdenTickers == <<"DX-Y.NYB", "COP=X", "BZ=F", "^VIX", "GXG", "ICOL">>

IndiceTicker(tk) == CHOOSE k \in DOMAIN OrdenTickers : OrdenTickers[k] = tk

TickersBase == {"DX-Y.NYB", "COP=X", "BZ=F", "^VIX"}

ConjuntosTickers ==
    {TickersBase, TickersBase \cup {"GXG"}, TickersBase \cup {"GXG", "ICOL"},
     TickersBase \ {"^VIX"}, TickersBase \ {"BZ=F"}, TickersBase \ {"COP=X"},
     (TickersBase \ {"COP=X"}) \cup {"ICOL"}}

\* the percentage change of ticker tk on date d, in hundredths
CambioPct(tk, d) == IF d = 0 THEN NaN ELSE <<((d + 2 * IndiceTicker(tk)) % 7) - 2>>

TablaLarga(tks, n, pos, gap, dup) ==
    { [fila |-> (IndiceTicker(tk) - 1) * n + d, date |-> d, ticker |-> tk,
       pct_change |-> CambioPct(tk, d)] :
        <<tk, d>> \in {par \in tks \X (0..(n - 1)) :
                          par[1] = "DX-Y.NYB" \/ par[2] < pos \/ par[2] >= pos + gap} }
    \cup (IF dup = 0 THEN {}
          ELSE {[fila |-> Len(OrdenTickers) * n, date |-> n - 1, ticker |-> "DX-Y.NYB",
                 pct_change |-> IF dup = 1 THEN CambioPct("DX-Y.NYB", n - 1)
                                ELSE <<6>>]})

\* the first row whose rolling correlation of 5-day standardized values can be
\* defined is row 93; corr_rolling.std() needs two such rows
FilasParaStd == (Ventana - 1) + (VentanaRet - 1) + 2

TablasLargas ==
    { TablaLarga(tks, n, pos, gap, dup) :
        tks \in ConjuntosTickers, n \in {1, MaxCortas}, pos \in 1..2,
        gap \in 0..MaxGapRun, dup \in 0..2 }
    \cup { TablaLarga(tks, n, 1, gap, dup) :
             tks \in ConjuntosTickers, n \in {VentanaReg + 1, FilasParaStd},
             gap \in {0, MaxGapRun}, dup \in 0..1 }

InitRun ==
    /\ TextoIdle /\ RetIdle /\ StdIdle /\ RegIdle /\ LocalIdle /\ MainIdle /\ SendIdle
    /\ precios \in TablasLargas
    /\ columnas = <<>> /\ huboFallo = FALSE /\ excepcion = "none"
    /\ archivo = "absent" /\ pcRun = "construir"

\* df[c] for each c of `leidas`: a KeyError when one is not a column
FaltaColumna(cols, leidas) == leidas \ cols # {}

\* the number of dates of the frames
NFechas == Cardinality(Fechas(precios))

Levanta(exc) ==
    /\ excepcion' = exc
    /\ pcRun' = "raised"

\* line 30
ConstruirVariablesBase ==
    /\ pcRun = "construir"
    /\ IF indice_duplicado(precios)
       THEN Levanta("ValueError") /\ UNCHANGED variables
       ELSE /\ variables' = construir_variables_base(precios)
            /\ pcRun' = "retornos" /\ UNCHANGED excepcion
    /\ UNCHANGED <<varsTexto, varsMain, varsSend,
                   retornos, pcRet, varsStd, varsReg, varsLocal, precios, columnas,
                   huboFallo, archivo>>

\* lines 33-36: calcular_retornos and estandarizar_variables keep the columns
RetornosYEstandarizadas ==
    /\ pcRun = "retornos"
    /\ columnas' = [periodo \in Periodos |-> DOMAIN variables]
    /\ pcRun' = "elegir"
    /\ UNCHANGED <<varsTexto, varsMain, varsSend, varsRet, varsStd, varsReg, varsLocal, precios, huboFallo,
                   excepcion, archivo>>

\* line 39: df_5d['COP=X'] is read once a candidate is a column
ElegirRiesgoLocalRun ==
    /\ pcRun = "elegir"
    /\ IF Presentes(columnas["5d"]) # <<>> /\ FaltaColumna(columnas["5d"], {"COP=X"})
       THEN Levanta("KeyError") /\ UNCHANGED varsLocal
       ELSE /\ corr_std' \in [Rango(Presentes(columnas["5d"])) ->
                               IF NFechas < FilasParaStd THEN {NaN} ELSE StdValores]
            /\ local_ticker' = elegir_riesgo_local(columnas["5d"], corr_std')
            /\ llamadas' = llamadas + 1
            /\ pcRun' = "factores" /\ UNCHANGED excepcion
    /\ UNCHANGED <<varsTexto, varsMain, varsSend,
                   varsRet, varsStd, varsReg, precios, columnas, huboFallo, archivo>>

ColumnasFactores == {"LA_USD", "Local5d", "DXY_L1", "BZ_lag1"}

\* line 42: crear_factores reads DX-Y.NYB and BZ=F and adds the factor columns
CrearFactoresRun ==
    /\ pcRun = "factores"
    /\ IF \E periodo \in Periodos : FaltaColumna(columnas[periodo], {"DX-Y.NYB", "BZ=F"})
       THEN Levanta("KeyError") /\ UNCHANGED columnas
       ELSE /\ columnas' = [periodo \in Periodos |->
                                columnas[periodo] \cup ColumnasFactores]
            /\ pcRun' = "regresiones" /\ UNCHANGED excepcion
    /\ UNCHANGED <<varsTexto, varsMain, varsSend,
                   varsRet, varsStd, varsReg, varsLocal, precios, huboFallo, archivo>>

\* what a fit or a scoring can raise
ErroresAjuste == {"LinAlgError", "ValueError"}

\* a handler for ValueError alone
except_solo_valor(exc) == exc = "ValueError"

\* line 268, "except Exception": every error of the try block is caught
except_atrapa(exc) == exc \in ErroresAjuste

\* line 45: calcular_regresiones reads its x_cols and COP=X; the loop of line
\* 235 has a fit only with more than 90 dates, and a fit may raise
CalcularRegresionesRun ==
    /\ pcRun = "regresiones"
    /\ IF \E periodo \in Periodos :
              FaltaColumna(columnas[periodo], Rango(x_cols(periodo)) \cup {"COP=X"})
       THEN Levanta("KeyError") /\ UNCHANGED huboFallo
       ELSE \E falla \in BOOLEAN : \E exc \in ErroresAjuste :
               /\ falla => rango_regresion(NFechas) # {}
               /\ huboFallo' = falla
               /\ IF falla /\ ~except_atrapa(exc)
                  THEN Levanta(exc)
                  ELSE pcRun' = "contribuciones" /\ UNCHANGED excepcion
    /\ UNCHANGED <<varsTexto, varsMain, varsSend,
                   varsRet, varsStd, varsReg, varsLocal, precios, columnas, archivo>>

\* lines 48-51: calcular_contribuciones and crear_tabla_resultado read the
\* factor columns and COP=X
ContribucionesYTablas ==
    /\ pcRun = "contribuciones"
    /\ IF \E periodo \in Periodos :
              FaltaColumna(columnas[periodo], Rango(x_cols(periodo)) \cup {"COP=X"})
       THEN Levanta("KeyError")
       ELSE pcRun' = "texto" /\ UNCHANGED excepcion
    /\ UNCHANGED <<varsTexto, varsMain, varsSend,
                   varsRet, varsStd, varsReg, varsLocal, precios, columnas, huboFallo,
                   archivo>>

\* line 54: generar_texto_news reads COP=X and ^VIX of the 5-day frame
GenerarTextoNewsRun ==
    /\ pcRun = "texto"
    /\ IF FaltaColumna(columnas["5d"], {"COP=X", "^VIX"})
       THEN Levanta("KeyError")
       ELSE pcRun' = "guardar" /\ UNCHANGED excepcion
    /\ UNCHANGED <<varsTexto, varsMain, varsSend,
                   varsRet, varsStd, varsReg, varsLocal, precios, columnas, huboFallo,
                   archivo>>

\* lines 58-77: the combined table and the text are written, the table returned
GuardarResultado ==
    /\ pcRun = "guardar"
    /\ archivo' = "written"
    /\ pcRun' = "returned"
    /\ UNCHANGED <<varsTexto, varsMain, varsSend,
                   varsRet, varsStd, varsReg, varsLocal, precios, columnas, huboFallo,
                   excepcion>>

NextRun ==
    \/ ConstruirVariablesBase \/ RetornosYEstandarizadas \/ ElegirRiesgoLocalRun
    \/ CrearFactoresRun \/ CalcularRegresionesRun \/ ContribucionesYTablas
    \/ GenerarTextoNewsRun \/ GuardarResultado

SpecRun == InitRun /\ [][NextRun]_vars

(***************************************************************************)
(* Properties of construir_variables_base and run_relations                *)
(***************************************************************************)
\* two rows of the long table share (date, ticker)
ClaveRepetida(tabla) ==
    \E r \in tabla :
        Cardinality({q \in tabla : q.date = r.date /\ q.ticker = r.ticker}) > 1

\* how many null cells in a row end at row t of a pivoted column
RECURSIVE NulosSeguidos(_, _)
NulosSeguidos(col, t) ==
    IF t < 0 \/ ~IsNaN(col[t]) THEN 0 ELSE 1 + NulosSeguidos(col, t - 1)

\* C12: a null cell of the pivoted matrix takes the last preceding non-null value
\* exactly when it is one of the first 5 rows of its gap; later rows of the gap
\* and rows before the ticker's first value stay null; no other value is filled in
C12_FfillLimite5 ==
    pcRun = "retornos" =>
        LET cruda == pivot(precios)
        IN  \A tk \in DOMAIN cruda : \A t \in DOMAIN cruda[tk] :
                LET k == NulosSeguidos(cruda[tk], t)
                    llena == variables[tk][t]
                IN  /\ k = 0 => llena = cruda[tk][t]
                    /\ (k > 0 /\ k <= LimiteFfill /\ t - k >= 0)
                           => llena = cruda[tk][t - k] /\ ~IsNaN(llena)
                    /\ (k > LimiteFfill \/ t - k < 0) => IsNaN(llena)

\* a gap of more than 5 rows: its 5th row is filled, its 6th row is null, and
\* the first row of the column, before any value, is null
C12_Witness ==
    /\ pcRun = "retornos"
    /\ \E tk \in DOMAIN variables : \E t \in DOMAIN variables[tk] :
           /\ t + 1 \in DOMAIN variables[tk]
           /\ NulosSeguidos(pivot(precios)[tk], t) = LimiteFfill
           /\ ~IsNaN(variables[tk][t])
           /\ IsNaN(variables[tk][t + 1])
           /\ IsNaN(variables[tk][0])

\* C13: with two rows of the same (date, ticker) construir_variables_base raises
\* and returns no wide matrix, and run_relations raises to its caller without
\* writing the output file
C13_DuplicadoLevanta ==
    ClaveRepetida(precios) =>
        /\ pcRun \in {"construir", "raised"}
        /\ pcRun = "raised" => excepcion = "ValueError"
        /\ variables = <<>>
        /\ archivo = "absent"

\* a table whose repeated key carries the same value twice made the run raise
C13_Witness ==
    /\ pcRun = "raised" /\ excepcion = "ValueError"
    /\ \E r, q \in precios :
           /\ r.fila # q.fila /\ r.date = q.date /\ r.ticker = q.ticker
           /\ r.pct_change = q.pct_change
    /\ archivo = "absent"

ColumnasRequeridas == {"COP=X", "DX-Y.NYB", "BZ=F", "^VIX"}

\* C14: on a table without duplicates that holds every required ticker, no step
\* of run_relations raises and the run goes on to its end, whatever the number
\* of dates and the null cells
C14_SinExcepcion ==
    (~ClaveRepetida(precios) /\ ColumnasRequeridas \subseteq Tickers(precios)) =>
        /\ pcRun # "raised" /\ excepcion = "none"
        /\ pcRun \notin {"construir", "returned"} =>
               ENABLED (\/ RetornosYEstandarizadas \/ ElegirRiesgoLocalRun
                        \/ CrearFactoresRun \/ CalcularRegresionesRun
                        \/ ContribucionesYTablas \/ GenerarTextoNewsRun
                        \/ GuardarResultado)
        /\ pcRun = "returned" => archivo = "written"

\* a run over fewer than 91 dates, with null cells left after the forward fill,
\* that returned
C14_Witness ==
    /\ pcRun = "returned"
    /\ NFechas > 1 /\ NFechas < VentanaReg + 1
    /\ \E tk \in DOMAIN variables : \E t \in DOMAIN variables[tk] :
           t > 0 /\ IsNaN(variables[tk][t])
    /\ ColumnasRequeridas \subseteq Tickers(precios)

(***************************************************************************)
(* daily_update.main (scripts/daily_update.py), run MaxCorridas times in a *)
(* row on the same storage.  An entry of disco is a top-level item of one  *)
(* of the four directories prepare_storage cleans, tagged with the run     *)
(* that wrote it; the runs are of different dates, so an entry of one run  *)
(* is never overwritten by the next.                                       *)
(***************************************************************************)
MaxCorridas == 2

Entrada(dir, nombre, c) == [dir |-> dir, nombre |-> nombre, corrida |-> c]

\* clean_directory that spares the price history and the relations table
clean_directory_conserva(entradas, denegadas) ==
    {e \in entradas : \/ e.nombre \in {".gitkeep", "prices", "relations"}
                      \/ e \in denegadas}

\* clean_directory over the four directories of prepare_storage: an item stays
\* when it is named .gitkeep or when removing it raised PermissionError
clean_directory(entradas, denegadas) ==
    {e \in entradas : e.nombre = ".gitkeep" \/ e \in denegadas}

\* the parameters of build_briefing_with_llm and the positional arguments
\* main passes to it
ParametrosBuild == <<"date", "relations_df", "news_items", "model">>

ArgumentosLlamada ==
    <<"date", "price_context", "price_meta", "relations_df", "news_items">>

\* binding of positional arguments to parameters: more arguments than
\* parameters raise TypeError before the body runs (the result is <<>>)
enlazar(params, args) ==
    IF Len(args) > Len(params)
    THEN <<>>
    ELSE [k \in 1..Len(args) |-> <<params[k], args[k]>>]

InitDaily ==
    /\ TextoIdle /\ RetIdle /\ StdIdle /\ RegIdle /\ LocalIdle /\ RunIdle /\ SendIdle
    /\ disco \in {{}, {Entrada("reports", ".gitkeep", 0)}}
    /\ escritos = {} /\ denegados = {} /\ corrida = 0
    /\ skip_llm = FALSE /\ relations_df = "vacio" /\ news_items = "vacia"
    /\ servicio = "ok" /\ invocacion = <<>> /\ briefing = "absent"
    /\ escrituras = 0 /\ pcMain = "inicio"

\* lines 188-201: the arguments are parsed and prepare_storage cleans raw,
\* processed, reports and relations
PrepareStorage ==
    /\ pcMain \in {"inicio", "finished", "abortada"} /\ corrida < MaxCorridas
    /\ \E sk \in BOOLEAN, den \in SUBSET {e \in disco : e.nombre # ".gitkeep"} :
           /\ skip_llm' = sk
           /\ denegados' = den
           /\ disco' = clean_directory(disco, den)
    /\ corrida' = corrida + 1
    /\ relations_df' = "vacio" /\ news_items' = "vacia" /\ invocacion' = <<>>
    /\ briefing' = "absent" /\ escrituras' = 0
    /\ escritos' = {e \in escritos : e.corrida = corrida}
    /\ pcMain' = "precios"
    /\ UNCHANGED <<varsTexto, varsRet, varsStd, varsReg, varsLocal, varsRun, varsSend, servicio>>

\* lines 204-226: the download (which may raise to the caller), the per-symbol
\* files when the download is not empty, and the processed table
DescargarPrecios ==
    /\ pcMain = "precios"
    /\ \E res \in {"raise", "vacio", "filas"} :
           IF res = "raise"
           THEN pcMain' = "abortada" /\ UNCHANGED <<disco, escritos>>
           ELSE LET nuevas ==
                        {Entrada("processed", "market_daily.parquet", corrida)}
                        \cup (IF res = "filas"
                              THEN {Entrada("raw", "prices", corrida)} ELSE {})
                IN  /\ disco' = disco \cup nuevas
                    /\ escritos' = escritos \cup nuevas
                    /\ pcMain' = "relations"
    /\ UNCHANGED <<varsTexto, varsRet, varsStd, varsReg, varsLocal, varsRun, varsSend,
                   denegados, corrida, skip_llm, relations_df, news_items,
                   servicio, invocacion, briefing, escrituras>>

\* run_relations called outside any try: its exception ends the run
RelationsStep_sin_try ==
    /\ pcMain = "relations"
    /\ \E levanta \in BOOLEAN, escrito \in BOOLEAN :
           /\ ~levanta => escrito
           /\ relations_df' = IF levanta THEN "vacio" ELSE "filas"
           /\ LET nuevas == IF escrito
                            THEN {Entrada("relations", "relations", corrida)}
                            ELSE {}
              IN  disco' = disco \cup nuevas /\ escritos' = escritos \cup nuevas
           /\ pcMain' = IF levanta THEN "abortada" ELSE "news"
    /\ UNCHANGED <<varsTexto, varsRet, varsStd, varsReg, varsLocal, varsRun, varsSend,
                   denegados, corrida, skip_llm, news_items, servicio,
                   invocacion, briefing, escrituras>>

\* lines 228-238: run_relations inside try/except; the table is empty when it
\* raised, and its output file exists when it got as far as writing it
RelationsStep ==
    /\ pcMain = "relations"
    /\ \E levanta \in BOOLEAN, escrito \in BOOLEAN :
           /\ ~levanta => escrito
           /\ relations_df' = IF levanta THEN "vacio" ELSE "filas"
           /\ LET nuevas == IF escrito
                            THEN {Entrada("relations", "relations", corrida)}
                            ELSE {}
              IN  disco' = disco \cup nuevas /\ escritos' = escritos \cup nuevas
    /\ pcMain' = "news"
    /\ UNCHANGED <<varsTexto, varsRet, varsStd, varsReg, varsLocal, varsRun, varsSend,
                   denegados, corrida, skip_llm, news_items, servicio,
                   invocacion, briefing, escrituras>>

\* lines 240-253: the news folder of the date is created and scrape_sources
\* runs inside try/except, unless news are disabled
NewsStep ==
    /\ pcMain = "news"
    /\ \E enabled \in BOOLEAN, res \in {"raise", "vacia", "titulares"} :
           IF enabled
           THEN /\ news_items' = IF res = "raise" THEN "vacia" ELSE res
                /\ disco' = disco \cup {Entrada("raw", "news", corrida)}
                /\ escritos' = escritos \cup {Entrada("raw", "news", corrida)}
           ELSE /\ res = "vacia"
                /\ UNCHANGED <<news_items, disco, escritos>>
    /\ pcMain' = "llm"
    /\ UNCHANGED <<varsTexto, varsRet, varsStd, varsReg, varsLocal, varsRun, varsSend,
                   denegados, corrida, skip_llm, relations_df, servicio,
                   invocacion, briefing, escrituras>>

\* lines 255-280: the briefing file is written in each of the three branches;
\* in the third the call of build_briefing_with_llm is inside try/except
LlmStep ==
    /\ pcMain = "llm"
    /\ IF skip_llm
       THEN briefing' = "no_generado" /\ UNCHANGED <<invocacion, servicio>>
       ELSE IF relations_df = "vacio"
       THEN briefing' = "no_disponible" /\ UNCHANGED <<invocacion, servicio>>
       ELSE \E sv \in {"ok", "APIError", "sin_clave"} :
                LET ligadura == enlazar(ParametrosBuild, ArgumentosLlamada)
                IN  /\ servicio' = sv
                    /\ invocacion' = ligadura
                    /\ briefing' = IF ligadura = <<>> \/ sv # "ok"
                                   THEN "no_disponible" ELSE "prosa"
    /\ escrituras' = escrituras + 1
    /\ disco' = disco \cup {Entrada("reports", "briefing", corrida)}
    /\ escritos' = escritos \cup {Entrada("reports", "briefing", corrida)}
    /\ pcMain' = "resumen"
    /\ UNCHANGED <<varsTexto, varsRet, varsStd, varsReg, varsLocal, varsRun, varsSend,
                   denegados, corrida, skip_llm, relations_df, news_items>>

\* lines 282-295: the summary is printed and main returns
Resumen ==
    /\ pcMain = "resumen"
    /\ pcMain' = "finished"
    /\ UNCHANGED <<varsTexto, varsRet, varsStd, varsReg, varsLocal, varsRun, varsSend,
                   disco, escritos, denegados, corrida, skip_llm, relations_df,
                   news_items, servicio, invocacion, briefing, escrituras>>

NextDaily ==
    \/ PrepareStorage \/ DescargarPrecios \/ RelationsStep \/ NewsStep
    \/ LlmStep \/ Resumen

SpecDaily == InitDaily /\ [][NextDaily]_vars

\* one run of main from the point where prepare_storage has returned, on a
\* storage that held at most a .gitkeep
InitCorrida ==
    /\ TextoIdle /\ RetIdle /\ StdIdle /\ RegIdle /\ LocalIdle /\ RunIdle /\ SendIdle
    /\ disco \in {{}, {Entrada("reports", ".gitkeep", 0)}}
    /\ escritos = {} /\ denegados = {} /\ corrida = 1
    /\ skip_llm \in BOOLEAN /\ relations_df = "vacio" /\ news_items = "vacia"
    /\ servicio = "ok" /\ invocacion = <<>> /\ briefing = "absent"
    /\ escrituras = 0 /\ pcMain = "precios"

NextCorrida ==
    \/ DescargarPrecios \/ RelationsStep \/ NewsStep \/ LlmStep \/ Resumen

\* main is sequential code: each step it has reached is taken
SpecCorrida ==
    /\ InitCorrida /\ [][NextCorrida]_vars
    /\ WF_vars(DescargarPrecios) /\ WF_vars(RelationsStep) /\ WF_vars(NewsStep)
    /\ WF_vars(LlmStep) /\ WF_vars(Resumen)

(***************************************************************************)
(* Properties of daily_update.main                                         *)
(***************************************************************************)
\* the second run has prepared its storage and done nothing else yet
SegundaPreparada == corrida = 2 /\ pcMain = "precios"

DeLaPrimera == {e \in escritos : e.corrida = 1}

\* C16 as stated: after the second run has prepared its storage the first
\* run's price history and relations table are still there and nothing else
\* of the first run is
C16_PersistenPreciosYTabla ==
    SegundaPreparada =>
        \A e \in DeLaPrimera : e \in disco <=> e.nombre \in {"prices", "relations"}

\* C16: after the second run has prepared its storage, the only entries of
\* the first run still there are those whose removal raised PermissionError;
\* the price history and the relations table are removed like the rest
C16_NadaPersiste ==
    SegundaPreparada => \A e \in DeLaPrimera : e \in disco <=> e \in denegados

\* the first run wrote its price history, its relations table and its
\* briefing, no removal was denied, and the second run has prepared its storage
C16_Witness ==
    /\ SegundaPreparada /\ denegados = {}
    /\ {Entrada("raw", "prices", 1), Entrada("relations", "relations", 1),
        Entrada("reports", "briefing", 1)} \subseteq escritos
    /\ DeLaPrimera \cap disco = {}

\* C17: without --skip-llm, with a non-empty relations table and a service
\* that answers, build_briefing_with_llm runs with the relations table and the
\* news list and the briefing file holds the prose it returned
C17_BriefingEsProsa ==
    (/\ pcMain \in {"resumen", "finished"}
     /\ ~skip_llm /\ relations_df = "filas" /\ servicio = "ok") =>
        /\ briefing = "prosa"
        /\ <<"relations_df", "relations_df">> \in Rango(invocacion)
        /\ <<"news_items", "news_items">> \in Rango(invocacion)

\* the run is past the storing of the prices and not yet over
TrasPrecios == pcMain \in {"relations", "news", "llm", "resumen"}

\* C30: once the prices are stored no step ends the run early, whether the
\* relations, news or LLM step raised or not; the briefing file is written
\* exactly once, by the LLM step; it holds a placeholder whenever --skip-llm was
\* given, the relations table is empty or the LLM call raised; and the run
\* reaches the final summary
C30_FallosNoAbortan ==
    /\ [][TrasPrecios => pcMain' \in {"news", "llm", "resumen", "finished"}]_vars
    /\ [](pcMain \in {"relations", "news", "llm"} =>
              escrituras = 0 /\ briefing = "absent")
    /\ [](pcMain \in {"resumen", "finished"} =>
              /\ escrituras = 1
              /\ briefing \in {"no_generado", "no_disponible", "prosa"}
              /\ (skip_llm \/ relations_df = "vacio" \/ invocacion = <<>>
                     \/ servicio # "ok")
                    => briefing \in {"no_generado", "no_disponible"})
    /\ (TrasPrecios ~> pcMain = "finished")

\* a run whose relations table had rows and whose LLM call raised, finished
\* with the placeholder written once
C30_Witness ==
    /\ pcMain = "finished" /\ ~skip_llm /\ relations_df = "filas"
    /\ servicio = "APIError"
    /\ briefing = "no_disponible" /\ escrituras = 1

(***************************************************************************)
(* send_newsletter.main (scripts/send_newsletter.py) with the Buttondown   *)
(* client of integrations/buttondown.py                                    *)
(***************************************************************************)
\* the methods class ButtondownClient defines
MetodosCliente == {"create_email", "schedule_email", "delete_email"}

\* the order of lines 98-104 exchanged: the key is required before --dry-run
\* is looked at
despues_de_leer_clave_primero(op) ==
    IF ~op.existe THEN "SystemExit"
    ELSE IF ~op.api_key THEN "SystemExit"
    ELSE IF op.dry_run THEN "normal"
    ELSE "crear"

\* where main goes from its first lines: the briefing file is looked for
\* (line 69), then --dry-run returns (line 98), then the key is required (103)
despues_de_leer(op) ==
    IF ~op.existe THEN "SystemExit"
    ELSE IF op.dry_run THEN "normal"
    ELSE IF ~op.api_key THEN "SystemExit"
    ELSE "crear"

InitSend ==
    /\ TextoIdle /\ RetIdle /\ StdIdle /\ RegIdle /\ LocalIdle /\ RunIdle /\ MainIdle
    /\ opciones \in [dry_run : BOOLEAN, draft_only : BOOLEAN, existe : BOOLEAN,
                     api_key : BOOLEAN, subject : BOOLEAN, run_suffix : BOOLEAN]
    /\ payload = <<>> /\ cliente = FALSE /\ peticiones = <<>>
    /\ salida = "none" /\ pcSend = "inicio"

\* lines 65-104: the briefing is read, the payload preview is built, --dry-run
\* prints it and returns, a missing key ends the run
Preparar ==
    /\ pcSend = "inicio"
    /\ payload' = IF opciones.existe
                  THEN [subject |-> IF opciones.subject THEN "args.subject"
                                    ELSE "DEFAULT_SUBJECT | date",
                        slug |-> IF opciones.run_suffix THEN "date-run_suffix"
                                 ELSE "date-utcnow"]
                  ELSE <<>>
    /\ LET sigue == despues_de_leer(opciones)
       IN  IF sigue = "crear"
           THEN pcSend' = "crear" /\ UNCHANGED salida
           ELSE pcSend' = "fin" /\ salida' = sigue
    /\ UNCHANGED <<varsTexto, varsRet, varsStd, varsReg, varsLocal, varsRun, varsMain,
                   opciones, cliente, peticiones>>

\* lines 106-124 and 130-131: the client is created and the draft is posted;
\* a ButtondownError (an HTTP status of 400 or more, a response without id)
\* becomes SystemExit, any other exception of the request leaves main as it is
CrearBorrador ==
    /\ pcSend = "crear"
    /\ cliente' = TRUE
    /\ \E resp \in {"id", "sin_id", "ButtondownError", "ConnectionError"} :
           /\ peticiones' = Append(peticiones, <<"create_email", resp>>)
           /\ IF resp = "id"
              THEN IF opciones.draft_only
                   THEN pcSend' = "fin" /\ salida' = "normal"
                   ELSE pcSend' = "encolar" /\ UNCHANGED salida
              ELSE /\ pcSend' = "fin"
                   /\ salida' = IF resp = "ConnectionError" THEN resp
                                ELSE "SystemExit"
    /\ UNCHANGED <<varsTexto, varsRet, varsStd, varsReg, varsLocal, varsRun, varsMain,
                   opciones, payload>>

\* lines 126-131: client.queue_email is looked up on the client; a missing
\* attribute raises AttributeError, which the except of line 130 does not catch
Encolar ==
    /\ pcSend = "encolar"
    /\ IF "queue_email" \in MetodosCliente
       THEN \E resp \in {"ok", "ButtondownError"} :
                /\ peticiones' = Append(peticiones, <<"queue_email", resp>>)
                /\ salida' = IF resp = "ok" THEN "normal" ELSE "SystemExit"
       ELSE salida' = "AttributeError" /\ UNCHANGED peticiones
    /\ pcSend' = "fin"
    /\ UNCHANGED <<varsTexto, varsRet, varsStd, varsReg, varsLocal, varsRun, varsMain,
                   opciones, payload, cliente>>

NextSend == Preparar \/ CrearBorrador \/ Encolar

SpecSend == InitSend /\ [][NextSend]_vars

(***************************************************************************)
(* Properties of send_newsletter.main                                      *)
(***************************************************************************)
BorradorCreado == <<"create_email", "id">> \in Rango(peticiones)

Encolado == <<"queue_email", "ok">> \in Rango(peticiones)

\* C18: without --dry-run and --draft-only, once the draft has its id the run
\* does not end there, and when it ends the email has been queued and the run
\* ended normally; with --draft-only the run ends normally with the draft and
\* the email is never queued
C18_EncolaYTermina ==
    BorradorCreado =>
        IF opciones.draft_only
        THEN pcSend = "fin" /\ salida = "normal" /\ ~Encolado
        ELSE /\ pcSend \in {"encolar", "fin"}
             /\ pcSend = "fin" => Encolado /\ salida = "normal"

\* C19: with --dry-run and the briefing file present the run ends normally, key
\* or no key, without a client and without a request; without the briefing
\* file the run ends with SystemExit, no payload built and no request sent
C19_DryRunSinCliente ==
    pcSend # "inicio" =>
        /\ (opciones.existe /\ opciones.dry_run) =>
               /\ pcSend = "fin" /\ salida = "normal"
               /\ ~cliente /\ peticiones = <<>>
        /\ ~opciones.existe =>
               /\ pcSend = "fin" /\ salida = "SystemExit"
               /\ payload = <<>> /\ ~cliente /\ peticiones = <<>>

\* a dry run without a key that ended normally with its payload built
C19_Witness ==
    /\ pcSend = "fin" /\ salida = "normal"
    /\ opciones.existe /\ opciones.dry_run /\ ~opciones.api_key
    /\ payload # <<>>

(***************************************************************************)
(* crear_factores applied to standardized matrices (horizon -> ticker ->   *)
(* column).  The result has the shape the regression reads: horizon -> row *)
(* -> column -> cell.  Standardized cells are never null (fillna(0)).      *)
(***************************************************************************)
MaxFilasFact == 3

\* a column copied without the shift
shift1_omitido(col) == col

\* Series.shift(1): row t holds the value of row t-1, row 0 is NaN
shift1(col) == [t \in DOMAIN col |-> IF t = 0 THEN NaN ELSE col[t - 1]]

crear_factores(est, lt) ==
    [periodo \in Periodos |->
        LET df == est[periodo]
            disponibles == {"USDMXN=X", "USDCLP=X"} \cap DOMAIN df
            dxy == IF periodo = "1d" THEN shift1(df["DX-Y.NYB"]) ELSE df["DX-Y.NYB"]
            bz == IF periodo = "1d" THEN shift1(df["BZ=F"]) ELSE df["BZ=F"]
        IN  [t \in DOMAIN df["DX-Y.NYB"] |->
                [c \in DOMAIN df \cup ColumnasFactores |->
                    CASE c = "LA_USD" ->
                           IF disponibles = {} THEN Cero
                           ELSE RDiv(RSumaCols([tk \in disponibles |-> df[tk][t]],
                                               disponibles),
                                     <<Cardinality(disponibles), 1>>)
                      [] c = "Local5d" ->
                           IF periodo = "5d" /\ lt \in DOMAIN df THEN df[lt][t] ELSE Cero
                      [] c = "DXY_L1" -> dxy[t]
                      [] c = "BZ_lag1" -> bz[t]
                      [] OTHER -> df[c][t]]]]

\* standardized matrices of 1..MaxFilasFact rows over the required tickers and
\* any of the regional and local ones, with small values that differ from one
\* ticker, row and horizon to the next
EstandarizadasFact ==
    LET orden == <<"COP=X", "DX-Y.NYB", "BZ=F", "USDMXN=X", "USDCLP=X", "GXG", "ICOL">>
        valor(periodo, tk, t, esc) ==
            LET k == CHOOSE j \in DOMAIN orden : orden[j] = tk
            IN  <<((3 * k + 2 * t + esc + (IF periodo = "5d" THEN 1 ELSE 0)) % 7) - 3, 1>>
    IN  { [periodo \in Periodos |->
              [tk \in {"COP=X", "DX-Y.NYB", "BZ=F"} \cup extra |->
                  [t \in 0..(n - 1) |-> valor(periodo, tk, t, esc)]]] :
          n \in 1..MaxFilasFact, esc \in 0..1,
          extra \in SUBSET {"USDMXN=X", "USDCLP=X", "GXG", "ICOL"} }

\* local_ticker is what elegir_riesgo_local can return on those columns: a
\* candidate that is a column, GXG when none is
InitFact ==
    /\ TextoIdle /\ RetIdle /\ RunIdle /\ MainIdle /\ SendIdle
    /\ corr_std = <<>> /\ llamadas = 0
    /\ pcStd = "idle"
    /\ estandarizadas \in EstandarizadasFact
    /\ local_ticker \in Rango(Candidatos)
    /\ local_ticker \in DOMAIN estandarizadas["5d"]
           \/ (local_ticker = "GXG"
               /\ Rango(Candidatos) \cap DOMAIN estandarizadas["5d"] = {})
    /\ factores = <<>> /\ oraculo = 0 /\ pendientes = <<>> /\ betas = <<>>
    /\ r2_scores = <<>> /\ iReg = 0 /\ eventos = <<>> /\ fallos = 0
    /\ modelos = <<>> /\ contribuciones = <<>> /\ tablas = <<>>
    /\ pc = "crear"

\* line 42 of run_relations: factores = crear_factores(estandarizadas, local_ticker)
CrearFactores ==
    /\ pc = "crear"
    /\ factores' = crear_factores(estandarizadas, local_ticker)
    /\ pc' = "creados"
    /\ UNCHANGED <<varsTexto, varsMain, varsSend, varsRet, varsStd, varsLocal, varsRun,
                   oraculo, pendientes, betas, r2_scores, iReg, eventos, fallos,
                   modelos, contribuciones, tablas>>

NextFact == CrearFactores

SpecFact == InitFact /\ [][NextFact]_vars

\* C23: on the 1-day horizon DXY_L1 and BZ_lag1 of row t are the standardized
\* DX-Y.NYB and BZ=F of row t-1 (undefined on row 0) and Local5d is 0; on the
\* 5-day horizon they are the values of the same row and Local5d is the local
\* ticker's standardized value (0 when the ticker is not a column)
C23_LagsYLocal ==
    pc = "creados" =>
        \A periodo \in Periodos : \A t \in DOMAIN factores[periodo] :
            LET fila == factores[periodo][t]
                est == estandarizadas[periodo]
            IN  IF periodo = "1d"
                THEN /\ fila["DXY_L1"] = IF t = 0 THEN NaN ELSE est["DX-Y.NYB"][t - 1]
                     /\ fila["BZ_lag1"] = IF t = 0 THEN NaN ELSE est["BZ=F"][t - 1]
                     /\ fila["Local5d"] = Cero
                ELSE /\ fila["DXY_L1"] = est["DX-Y.NYB"][t]
                     /\ fila["BZ_lag1"] = est["BZ=F"][t]
                     /\ fila["Local5d"] = IF local_ticker \in DOMAIN est
                                          THEN est[local_ticker][t] ELSE Cero

\* factors built on three rows with ICOL selected: the lagged columns of the
\* 1-day frame differ from the unlagged ones and Local5d is not 0 on 5d
C23_Witness ==
    /\ pc = "creados"
    /\ local_ticker = "ICOL"
    /\ 2 \in DOMAIN factores["1d"]
    /\ factores["1d"][2]["DXY_L1"] # estandarizadas["1d"]["DX-Y.NYB"][2]
    /\ factores["1d"][2]["BZ_lag1"] # estandarizadas["1d"]["BZ=F"][2]
    /\ factores["5d"][2]["Local5d"] # Cero
    /\ "ICOL" \in DOMAIN estandarizadas["1d"]

(***************************************************************************)
(* generar_texto_news (relations.py, lines 451-525): the one-line summary   *)
(* built from the latest date of the 5-day contributions, of the 5-day      *)
(* factors and of the 1-day R2.  A text is held as the fields the f-strings *)
(* interpolate; two texts are equal exactly when these are.                 *)
(***************************************************************************)
MaxViejos == 100

AnioVix == 252

UmbralContrib == <<1, 1000>>

UmbralR2 == <<1, 10>>

ParteResidual == <<3, 10>>

Percentil80 == <<4, 5>>

\* f"{x:.Nf}" with escala = 10^N: the sign and the digits of |x| rounded to N
\* decimals, half to even
formato(x, escala) ==
    LET n == Abs(x[1]) * escala
        q == n \div x[2]
        r == n % x[2]
    IN  [negativo |-> x[1] < 0,
         cifras |-> IF 2 * r > x[2] \/ (2 * r = x[2] /\ q % 2 = 1) THEN q + 1 ELSE q]

\* x_cols of generar_texto_news (line 466)
x_cols_texto == <<"DXY_L1", "LA_USD", "BZ_lag1", "Local5d">>

\* the contributions above the threshold in the order of x_cols, unsorted
contrib_ordenadas_sin_sort(fila) ==
    LET pasa == {k \in DOMAIN x_cols_texto :
                    /\ ~IsNaN(fila[x_cols_texto[k]])
                    /\ RMenor(UmbralContrib, RAbs(fila[x_cols_texto[k]]))}
        puesto(k) == Cardinality({j \in pasa : j < k}) + 1
    IN  [p \in 1..Cardinality(pasa) |->
            LET k == CHOOSE j \in pasa : puesto(j) = p
            IN  [factor |-> x_cols_texto[k], contrib |-> fila[x_cols_texto[k]]]]

\* lines 469-475: the contributions that are not NaN and exceed 0.001 in absolute
\* value, sorted by decreasing absolute value; the sort is stable, so equal
\* magnitudes keep the order of x_cols
contrib_ordenadas(fila) ==
    LET pasa == {k \in DOMAIN x_cols_texto :
                    /\ ~IsNaN(fila[x_cols_texto[k]])
                    /\ RMenor(UmbralContrib, RAbs(fila[x_cols_texto[k]]))}
        mag(k) == RAbs(fila[x_cols_texto[k]])
        antes(a, b) == RMenor(mag(b), mag(a)) \/ (mag(a) = mag(b) /\ a < b)
        puesto(k) == Cardinality({j \in pasa : antes(j, k)}) + 1
    IN  [p \in 1..Cardinality(pasa) |->
            LET k == CHOOSE j \in pasa : puesto(j) = p
            IN  [factor |-> x_cols_texto[k], contrib |-> fila[x_cols_texto[k]]]]

\* Series.quantile(0.8) of the rows idx of column col of df, by linear
\* interpolation between the order statistics around position 0.8 * (n - 1)
quantile(df, col, idx) ==
    LET n == Cardinality(idx)
        h == Percentil80[1] * (n - 1)
        j == h \div Percentil80[2]
        resto == h % Percentil80[2]
        valores == {df[t][col] : t \in idx}
        hasta(v) == Cardinality({t \in idx : ~RMenor(v, df[t][col])})
        orden(k) == CHOOSE v \in valores :
                        /\ hasta(v) >= k + 1
                        /\ \A w \in valores : hasta(w) >= k + 1 => ~RMenor(w, v)
    IN  IF resto = 0 THEN orden(j)
        ELSE RSuma(orden(j), RMul(<<resto, Percentil80[2]>>,
                                   RResta(orden(j + 1), orden(j))))

\* lines 502-509: the percentile is taken over every non-null row of the column
risk_on(df, u) ==
    LET vix_data == {t \in DOMAIN df : ~IsNaN(df[t]["^VIX"])}
    IN  IF Cardinality(vix_data) >= AnioVix
        THEN LET percentil_80 == quantile(df, "^VIX", vix_data)
                 vix_actual == IF u \in vix_data THEN df[u]["^VIX"] ELSE NaN
             IN  IF ~IsNaN(vix_actual) /\ RMenor(percentil_80, vix_actual)
                 THEN 1 ELSE 0
        ELSE 0

generar_texto_news(cs, fs, ms) ==
    LET u == ultimo_dia(fs["5d"])
        cop_actual == fs["5d"][u]["COP=X"]
        contribuciones_5d == cs["5d"][u]
        r2_1d == IF u \in DOMAIN ms["1d"].r2 THEN ms["1d"].r2[u] ELSE Cero
        ordenadas == contrib_ordenadas(contribuciones_5d)
        movimiento_cop == IF IsNaN(cop_actual) THEN "desconocido"
                          ELSE formato(cop_actual, 1000)
        \* lines 489-492 assign verbo; line 494 builds linea_1 without it
        verbo == IF ~IsNaN(r2_1d) /\ RMenor(r2_1d, UmbralR2)
                 THEN "parece haber sido impulsado por" ELSE "fue por"
        residual == contribuciones_5d["residual"]
        residual_pct == IF IsNaN(residual) THEN Cero ELSE RAbs(residual)
        mov_abs == IF IsNaN(cop_actual) THEN Cero ELSE RAbs(cop_actual)
    IN  [movimiento_cop |-> movimiento_cop,
         drivers |-> IF Len(ordenadas) >= 2
                     THEN [p \in 1..2 |->
                              [factor |-> ordenadas[p].factor,
                               pct |-> formato(ordenadas[p].contrib, 10)]]
                     ELSE <<>>,
         condiciones |->
             (IF RMenor(RMul(ParteResidual, mov_abs), residual_pct)
              THEN <<"resto residual, probable ruido local.">> ELSE <<>>)
             \o (IF risk_on(fs["5d"], u) = 1
                 THEN <<"sesgo de riesgo global.">> ELSE <<>>)]

\* a ^VIX column: viejos high observations, then a year of mostly low ones with
\* altos high ones, then the latest value
ColumnaVix(viejos, altos, actual) ==
    LET bajos == (Percentil80[1] * AnioVix) \div Percentil80[2]
    IN  [t \in 0..(viejos + bajos + altos) |->
            IF t < viejos THEN Q(3)
            ELSE IF t < viejos + bajos THEN Q(1)
            ELSE IF t < viejos + bajos + altos THEN Q(3)
            ELSE actual]

ValoresContrib == {Cero, <<1, 2000>>, <<-1, 5>>, <<3, 10>>}

FilasTexto ==
    [DXY_L1 : ValoresContrib, LA_USD : ValoresContrib,
     BZ_lag1 : {Cero, <<1, 2000>>, <<1, 5>>}, Local5d : {Cero, <<-3, 10>>},
     residual : {<<3, 10>>, <<1, 2>>}]

ColumnasVix ==
    LET bajos == (Percentil80[1] * AnioVix) \div Percentil80[2]
    IN  {ColumnaVix(viejos, altos, actual) :
            viejos \in {0, MaxViejos},
            altos \in {AnioVix - bajos - 2, AnioVix - bajos - 1},
            actual \in {Q(2), Q(4), NaN}}

\* the inputs: every contribution row against one column, every column against
\* one contribution row
EntradasTexto ==
    LET bajos == (Percentil80[1] * AnioVix) \div Percentil80[2]
    IN  [fila : FilasTexto, r2 : {<<1, 20>>, UmbralR2, <<1, 2>>, NaN},
         cop : {Q(1), NaN},
         vix : {ColumnaVix(0, AnioVix - bajos - 1, Q(2))}]
        \cup
        [fila : {f \in FilasTexto : f.DXY_L1 = <<3, 10>> /\ f.LA_USD = <<-1, 5>>
                                    /\ f.BZ_lag1 = Cero /\ f.Local5d = Cero},
         r2 : {<<1, 20>>, <<1, 2>>}, cop : {Q(1)}, vix : ColumnasVix]

InitTexto ==
    /\ RetIdle /\ StdIdle /\ LocalIdle /\ RunIdle /\ MainIdle /\ SendIdle /\ TextoIdle
    /\ \E en \in EntradasTexto :
          /\ factores = [periodo \in Periodos |->
                [t \in DOMAIN en.vix |->
                    [c \in {"COP=X", "^VIX"} |->
                        IF c = "^VIX" THEN en.vix[t]
                        ELSE IF t = ultimo_dia(en.vix) THEN en.cop ELSE Cero]]]
          /\ contribuciones = [periodo \in Periodos |->
                [t \in DOMAIN en.vix |->
                    [c \in Rango(x_cols_contribuciones(periodo)) \cup {"residual"} |->
                        IF t = ultimo_dia(en.vix) THEN en.fila[c] ELSE Cero]]]
          /\ modelos = [periodo \in Periodos |->
                [betas |-> <<>>,
                 r2 |-> [t \in DOMAIN en.vix |->
                            IF t = ultimo_dia(en.vix) THEN en.r2 ELSE NaN]]]
    /\ oraculo = 0 /\ pendientes = <<>> /\ betas = <<>> /\ r2_scores = <<>>
    /\ iReg = 0 /\ eventos = <<>> /\ fallos = 0 /\ tablas = <<>>
    /\ pc = "generar"

\* line 54 of run_relations
GenerarTexto ==
    /\ pc = "generar"
    /\ texto_news' = generar_texto_news(contribuciones, factores, modelos)
    /\ pc' = "texto"
    /\ UNCHANGED <<varsMain, varsSend, varsRet, varsStd, varsLocal, varsRun,
                   factores, oraculo, pendientes, betas, r2_scores, iReg, eventos,
                   fallos, modelos, contribuciones, tablas>>

NextTexto == GenerarTexto

SpecTexto == InitTexto /\ [][NextTexto]_vars

\* the latest row of the 5-day contributions
UltimaFila == contribuciones["5d"][ultimo_dia(factores["5d"])]

\* the factors whose latest 5-day contribution exceeds x in absolute value
Sobre(x) ==
    {c \in Rango(x_cols_texto) : ~IsNaN(UltimaFila[c]) /\ RMenor(x, RAbs(UltimaFila[c]))}

\* the text names as Driver 1 and Driver 2 two factors such that no factor has a
\* larger contribution than Driver 1 and no third factor a larger one than
\* Driver 2
NombraLosDosMayores ==
    /\ Len(texto_news.drivers) = 2
    /\ LET a == texto_news.drivers[1].factor
           b == texto_news.drivers[2].factor
       IN  /\ a # b
           /\ ~RMenor(RAbs(UltimaFila[a]), RAbs(UltimaFila[b]))
           /\ \A c \in Rango(x_cols_texto) \ {a, b} :
                  ~RMenor(RAbs(UltimaFila[b]), RAbs(UltimaFila[c]))

\* C26 as stated: whenever at least two factors have a non-zero 5-day
\* contribution on the latest date, Driver 1 and Driver 2 are the factors with
\* the largest and the second-largest absolute contribution
C26_DriversNoCero ==
    (pc = "texto" /\ Cardinality(Sobre(Cero)) >= 2) => NombraLosDosMayores

\* C26 amended: whenever at least two factors have a 5-day contribution above 0.001
\* in absolute value on the latest date, Driver 1 and Driver 2 are the factors
\* with the largest and the second-largest absolute contribution; with fewer, no
\* driver is named
C26_DriversSobreUmbral ==
    pc = "texto" =>
        IF Cardinality(Sobre(UmbralContrib)) >= 2 THEN NombraLosDosMayores
        ELSE texto_news.drivers = <<>>

\* two drivers named against the order of x_cols, with a third factor whose
\* non-zero contribution stays under the threshold
C26_Witness ==
    /\ pc = "texto"
    /\ Len(texto_news.drivers) = 2
    /\ texto_news.drivers[1].factor = "Local5d"
    /\ texto_news.drivers[2].factor = "LA_USD"
    /\ UltimaFila["DXY_L1"] = <<1, 2000>>

\* C27: with two drivers named, the same inputs with the 1-day R2 of the latest
\* date on the other side of 0.10 give a different text
C27_TextoDependeDeR2 ==
    (pc = "texto" /\ Len(texto_news.drivers) = 2) =>
        LET u == ultimo_dia(factores["5d"])
            r2 == modelos["1d"].r2[u]
        IN  \A otro \in {<<1, 20>>, UmbralR2, <<1, 2>>} :
                (~IsNaN(r2) /\ RMenor(r2, UmbralR2) # RMenor(otro, UmbralR2)) =>
                    generar_texto_news(contribuciones, factores,
                        [modelos EXCEPT !["1d"].r2[u] = otro]) # texto_news

\* the last AnioVix non-null rows of the ^VIX column
UltimoAnio ==
    LET df == factores["5d"]
        vd == {t \in DOMAIN df : ~IsNaN(df[t]["^VIX"])}
        corte == CHOOSE c \in vd : Cardinality({t \in vd : t >= c}) = AnioVix
    IN  {t \in vd : t >= corte}

\* C28: when the ^VIX column holds at least a year of observations, the text has
\* the global-risk phrase exactly when the latest ^VIX value is strictly above
\* the 80th percentile of the last 252 observations
C28_RiesgoDelUltimoAnio ==
    LET df == factores["5d"]
        u == ultimo_dia(df)
        vd == {t \in DOMAIN df : ~IsNaN(df[t]["^VIX"])}
    IN  (pc = "texto" /\ Cardinality(vd) >= AnioVix) =>
            ("sesgo de riesgo global." \in Rango(texto_news.condiciones)
                <=> /\ ~IsNaN(df[u]["^VIX"])
                    /\ RMenor(quantile(df, "^VIX", UltimoAnio), df[u]["^VIX"]))

====
